---- MODULE Spec2Model ----
(***************************************************************************)
(* GardenPlanner: the task/crop data layer (src/services/database.ts,      *)
(* src/services/cropDatabase.ts, photoManager, NewYearSetupScreen) as a    *)
(* state machine over the tasks table.                                     *)
(*                                                                         *)
(* Text values are modelled by their content: a date text is a record of   *)
(* its layout (fmt) and the three numbers written in it; the JSON text of  *)
(* a photo list is a record holding the list.  A JavaScript Date object is *)
(* a record of its local calendar fields and local hour.                   *)
(***************************************************************************)
EXTENDS Integers, Sequences, FiniteSets, TLC

VARIABLES
    tasks,      \* the rows of the tasks table (database.ts:79-90, 93-124)
    uuids,      \* how many identifiers generateUUID has handed out so far
    device,     \* the device the app runs on: time zone and JavaScript engine
    settings,   \* the rows of the settings table, oldest first (settings.ts:29-36)
    crops,      \* the rows of the crops table (cropDatabase.ts:78-83)
    schema,     \* the columns each table has; no columns: the table does not exist
    screen,     \* the main screen's React state: currentYear and the tasks shown
    last        \* what the most recent operation was given and returned

vars == <<tasks, uuids, device, settings, crops, schema, screen, last>>

\* What the operations on the tasks table leave alone.
others == <<settings, crops, schema>>

\* ------------------------------------------------------------------------
\* Bounds of the model
\* ------------------------------------------------------------------------
MaxTasks == 4         \* rows inserted into the tasks table during a run
MaxCreated == 2       \* createTask is tried while fewer rows than this were inserted
MaxWeeks == 8         \* largest weeksBeforeFrost tried (the seed catalog's largest)

\* SQL NULL and JavaScript undefined for text-valued fields.
Null == "<null>"
Undefined == "<undefined>"

\* ------------------------------------------------------------------------
\* Calendar arithmetic of the JavaScript Date object
\* ------------------------------------------------------------------------
IsLeapYear(y) == (y % 4 = 0 /\ y % 100 # 0) \/ (y % 400 = 0)

DaysInMonth(y, m) ==
    IF m = 2 THEN (IF IsLeapYear(y) THEN 29 ELSE 28)
    ELSE IF m \in {4, 6, 9, 11} THEN 30
    ELSE 31

\* The calendar date that (year y, month m, day-of-month d) names when d is
\* allowed to run outside the month, as Date.prototype.setDate and
\* setFullYear resolve it: d < 1 rolls under into earlier months and years,
\* d past the end of the month rolls over into later ones.
\* (MakeDayNoYearBorrow is the variant that rolls under from January into
\* December without leaving the year.)
RECURSIVE MakeDayNoYearBorrow(_, _, _)
MakeDayNoYearBorrow(y, m, d) ==
    IF d < 1 THEN
        LET pm == IF m = 1 THEN 12 ELSE m - 1
            py == y
        IN  MakeDayNoYearBorrow(py, pm, d + DaysInMonth(py, pm))
    ELSE IF d > DaysInMonth(y, m) THEN
        LET nm == IF m = 12 THEN 1 ELSE m + 1
            ny == IF m = 12 THEN y + 1 ELSE y
        IN  MakeDayNoYearBorrow(ny, nm, d - DaysInMonth(y, m))
    ELSE [y |-> y, m |-> m, d |-> d]

RECURSIVE MakeDay(_, _, _)
MakeDay(y, m, d) ==
    IF d < 1 THEN
        LET pm == IF m = 1 THEN 12 ELSE m - 1
            py == IF m = 1 THEN y - 1 ELSE y
        IN  MakeDay(py, pm, d + DaysInMonth(py, pm))
    ELSE IF d > DaysInMonth(y, m) THEN
        LET nm == IF m = 12 THEN 1 ELSE m + 1
            ny == IF m = 12 THEN y + 1 ELSE y
        IN  MakeDay(ny, nm, d - DaysInMonth(y, m))
    ELSE [y |-> y, m |-> m, d |-> d]

\* A Date object: local calendar fields and local hour of day.
DateObject(y, m, d, h) == [valid |-> TRUE, y |-> y, m |-> m, d |-> d, h |-> h]
InvalidDate == [valid |-> FALSE, y |-> 0, m |-> 0, d |-> 0, h |-> 0]

\* getDate(), getFullYear(): local fields.
getDate(date) == date.d
getFullYear(date) == date.y

\* date.setDate(n): the same month's day n, resolved by MakeDay; the local
\* time of day is kept.
setDate(date, n) ==
    LET r == MakeDay(date.y, date.m, n)
    IN  DateObject(r.y, r.m, r.d, date.h)

\* ------------------------------------------------------------------------
\* cropDatabase.ts: calculatePlantingDate
\* ------------------------------------------------------------------------
\* The heap holds the Date objects alive during the call; a Date is mutable,
\* so whether the result is a new object or the argument itself matters.
\* new Date(frostDate) allocates a copy at a fresh reference.
NewDateCopy(heap, ref) ==
    [heap |-> Append(heap, heap[ref]), ref |-> Len(heap) + 1]

DaysToSubtract(crop) == crop.weeksBeforeFrost * 7

\* calculatePlantingDate(crop, frostDate): returns the heap after the call
\* and the reference of the returned Date.
calculatePlantingDate(heap, crop, frostRef) ==
    LET alloc == NewDateCopy(heap, frostRef)
        plantingDate == alloc.ref
        daysToSubtract == DaysToSubtract(crop)
        h2 == [alloc.heap EXCEPT ![plantingDate] =
                  setDate(@, getDate(@) - daysToSubtract)]
    IN  [heap |-> h2, ref |-> plantingDate]

\* ------------------------------------------------------------------------
\* Date texts, and the conversions between texts and Date objects
\* ------------------------------------------------------------------------
\* The two layouts a date text can have in this program.
MDY == "MM/DD/YYYY"
ISO == "YYYY-MM-DD"

DateText(fmt, y, m, d) == [fmt |-> fmt, y |-> y, m |-> m, d |-> d]

\* Hours the device's local time is ahead of UTC (negative: behind).
TzOffsets == {-5, 1}

\* The local fields of the instant whose UTC fields are (y, m, d, h).
LocalFromUTC(y, m, d, h, tz) ==
    LET hh == h + tz
    IN  IF hh < 0 THEN
            LET r == MakeDay(y, m, d - 1) IN DateObject(r.y, r.m, r.d, hh + 24)
        ELSE IF hh >= 24 THEN
            LET r == MakeDay(y, m, d + 1) IN DateObject(r.y, r.m, r.d, hh - 24)
        ELSE DateObject(y, m, d, hh)

\* The UTC calendar date of a Date object.
UTCDateOf(date, tz) ==
    LET hh == date.h - tz
    IN  IF hh < 0 THEN MakeDay(date.y, date.m, date.d - 1)
        ELSE IF hh >= 24 THEN MakeDay(date.y, date.m, date.d + 1)
        ELSE [y |-> date.y, m |-> date.m, d |-> date.d]

\* new Date(text).  A date-only ISO text is UTC midnight.  Any other layout
\* is implementation-defined (ECMA-262 Date.parse): engines with the legacy
\* parser read MM/DD/YYYY as local midnight, the others give Invalid Date.
NewDateFromText(text, tz, legacyParse) ==
    IF text.fmt = ISO THEN LocalFromUTC(text.y, text.m, text.d, 0, tz)
    ELSE IF legacyParse THEN DateObject(text.y, text.m, text.d, 0)
    ELSE InvalidDate

\* date.setFullYear(year): local month and day kept, resolved by MakeDay
\* (Feb 29 in a year without one becomes Mar 1).
setFullYear(date, year) ==
    LET r == MakeDay(year, date.m, date.d)
    IN  DateObject(r.y, r.m, r.d, date.h)

\* date.toISOString().split('T')[0]: the UTC calendar date, as YYYY-MM-DD.
toISODateText(date, tz) ==
    LET u == UTCDateOf(date, tz) IN DateText(ISO, u.y, u.m, u.d)

\* The calendar year written in a date text.
YearWrittenIn(text) == text.y

\* ------------------------------------------------------------------------
\* The tasks table (database.ts)
\* ------------------------------------------------------------------------
\* new Date(): the device clock during the run.
Now == DateObject(2025, 3, 10, 9)

\* JSON.stringify(list) and JSON.parse(text) of a photo list; the column
\* holds either such a text or NULL.
NullPhotos == [isNull |-> TRUE, json |-> <<>>]
JSONstringify(list) == [isNull |-> FALSE, json |-> list]
JSONparse(text) == text.json

\* value || null, value || undefined on a text: NULL, undefined and the
\* empty text are falsy.
IsFalsyText(v) == v \in {Null, Undefined, ""}
OrNull(v) == IF IsFalsyText(v) THEN Null ELSE v
OrUndefined(v) == IF IsFalsyText(v) THEN Undefined ELSE v

\* flag ? 1 : 0 and Boolean(n)
BoolToInt(b) == IF b THEN 1 ELSE 0
IntToBool(n) == n # 0

\* generateUUID() draws a random identifier.  Two outcomes are kept apart:
\* an identifier never handed out before (the n-th such identifier is the
\* number n), or one that a row of the table already has.
Ids == 1 .. (MaxTasks + 1)
UsedIds(table) == {r.id : r \in table}
CollidingId(table) == CHOOSE i \in UsedIds(table) : TRUE
generateUUID(table, issued, collide) ==
    IF collide /\ table # {} THEN CollidingId(table) ELSE issued + 1

\* INSERT INTO tasks: id is the PRIMARY KEY, so a row whose id is taken is
\* refused and the statement raises.  (InsertOrReplace is the variant that
\* overwrites the row holding the id.)
InsertOrReplace(table, row) ==
    [ok |-> TRUE, table |-> {r \in table : r.id # row.id} \cup {row}]

InsertRow(table, row) ==
    IF row.id \in UsedIds(table)
    THEN [ok |-> FALSE, table |-> table]
    ELSE [ok |-> TRUE, table |-> table \cup {row}]

\* createTask(task): the row it writes.  The isTemplate, category and
\* archived columns exist once initDatabase has run.
CreateTaskRow(task, uuid) ==
    [id         |-> IF task.id = 0 THEN uuid ELSE task.id,
     title      |-> task.title,
     type       |-> task.type,
     cropId     |-> OrNull(task.cropId),
     date       |-> task.date,
     notes      |-> OrNull(task.notes),
     photos     |-> IF task.hasPhotos THEN JSONstringify(task.photos)
                    ELSE NullPhotos,
     completed  |-> BoolToInt(task.completed),
     year       |-> IF task.year = 0 THEN getFullYear(Now) ELSE task.year,
     isTemplate |-> BoolToInt(task.isTemplate),
     category   |-> OrNull(task.category),
     archived   |-> BoolToInt(task.archived)]

\* The Task object built from a row (getTaskById, getTasks, ...).
RowToTask(row) ==
    [id         |-> row.id,
     title      |-> row.title,
     type       |-> IF IsFalsyText(row.type) THEN "task" ELSE row.type,
     cropId     |-> OrUndefined(row.cropId),
     date       |-> row.date,
     notes      |-> OrUndefined(row.notes),
     photos     |-> IF row.photos.isNull THEN <<>> ELSE JSONparse(row.photos),
     completed  |-> IntToBool(row.completed),
     year       |-> row.year,
     isTemplate |-> IntToBool(row.isTemplate),
     category   |-> row.category,
     archived   |-> IntToBool(row.archived)]

\* buildTaskQuery: the archived filter added to the year queries.
NotArchived(row) == row.archived = 0

\* getTasks(year): the Task objects of the year's rows that are not
\* archived (as a set: the order of the list is not modelled here).
getTasks(table, year) ==
    {RowToTask(r) : r \in {x \in table : x.year = year /\ NotArchived(x)}}

\* ------------------------------------------------------------------------
\* database.ts: copySelectedTasks
\* ------------------------------------------------------------------------
\* An optional boolean option: true, false, or left out.
OptTrue == "true"
OptFalse == "false"
OptionalBoolean == {OptTrue, OptFalse, Undefined}

\* The WHERE clause built from the options (lines 483-501): the conditions
\* are joined by AND.  (SelectSourceTasksVisible is the variant that also
\* leaves archived rows out, as the year queries do.)
SelectSourceTasksVisible(table, options) ==
    {r \in table :
        /\ r.year = options.fromYear
        /\ NotArchived(r)
        /\ (options.categories # {} => r.category \in options.categories)
        /\ (options.includeTemplates = OptFalse => r.isTemplate = 0)
        /\ (options.includeNotes = OptFalse => r.type = "task")}

\* (SelectSourceTasksNotYetCopied is the variant that skips a row when
\* the target year already has another row of the same title.)
SelectSourceTasksNotYetCopied(table, options) ==
    {r \in table :
        /\ r.year = options.fromYear
        /\ (options.categories # {} => r.category \in options.categories)
        /\ (options.includeTemplates = OptFalse => r.isTemplate = 0)
        /\ (options.includeNotes = OptFalse => r.type = "task")
        /\ ~\E c \in table :
               c.id # r.id /\ c.title = r.title /\ c.year = options.toYear}

SelectSourceTasks(table, options) ==
    {r \in table :
        /\ r.year = options.fromYear
        /\ (options.categories # {} => r.category \in options.categories)
        /\ (options.includeTemplates = OptFalse => r.isTemplate = 0)
        /\ (options.includeNotes = OptFalse => r.type = "task")}

\* ORDER BY date compares the texts character by character.  Both layouts
\* are fixed-width digits; an MM/DD/YYYY text starts with 0 or 1 and so
\* sorts before any YYYY-MM-DD text of the years 2000-2999.
TextLess(a, b) ==
    IF a.fmt # b.fmt THEN a.fmt = MDY
    ELSE IF a.fmt = MDY THEN
        \/ a.m < b.m
        \/ a.m = b.m /\ a.d < b.d
        \/ a.m = b.m /\ a.d = b.d /\ a.y < b.y
    ELSE
        \/ a.y < b.y
        \/ a.y = b.y /\ a.m < b.m
        \/ a.y = b.y /\ a.m = b.m /\ a.d < b.d

\* The lists a query may return for a set of rows under ORDER BY date:
\* rows with equal date texts come in an order SQLite does not fix.
OrderedByDate(rows) ==
    LET n == Cardinality(rows)
    IN  {f \in [1 .. n -> rows] :
            /\ \A i, j \in 1 .. n : i # j => f[i] # f[j]
            /\ \A i, j \in 1 .. n : i < j => ~TextLess(f[j].date, f[i].date)}

\* Lines 513-520: the date text of the copy.  new Date(text) does not
\* raise, so the catch branch (lines 521-528) is never entered.
AdjustedDate(text, yearDiff, tz, legacyParse) ==
    LET originalDate == NewDateFromText(text, tz, legacyParse)
    IN  IF originalDate.valid
        THEN toISODateText(
                 setFullYear(originalDate, getFullYear(originalDate) + yearDiff),
                 tz)
        ELSE text

\* Line 541: options.resetCompletion === false ? task.completed : 0.
\* (CopiedCompletedKept is the variant that always keeps the source value.)
CopiedCompletedKept(task, options) == task.completed

CopiedCompleted(task, options) ==
    IF options.resetCompletion = OptFalse THEN task.completed ELSE 0

\* Lines 530-547: the row inserted for a source row.
\* (CopiedRowWithPhotos is the variant that carries the source's photo
\* list and archived flag over.)
CopiedRowWithPhotos(task, newId, newDate, options) ==
    [id         |-> newId,
     title      |-> task.title,
     type       |-> task.type,
     cropId     |-> OrNull(task.cropId),
     date       |-> newDate,
     notes      |-> OrNull(task.notes),
     photos     |-> task.photos,
     completed  |-> CopiedCompleted(task, options),
     year       |-> options.toYear,
     isTemplate |-> task.isTemplate,
     category   |-> OrNull(task.category),
     archived   |-> task.archived]

CopiedRow(task, newId, newDate, options) ==
    [id         |-> newId,
     title      |-> task.title,
     type       |-> task.type,
     cropId     |-> OrNull(task.cropId),
     date       |-> newDate,
     notes      |-> OrNull(task.notes),
     photos     |-> NullPhotos,
     completed  |-> CopiedCompleted(task, options),
     year       |-> options.toYear,
     isTemplate |-> task.isTemplate,
     category   |-> OrNull(task.category),
     archived   |-> 0]

\* Lines 506, 549, 553: copiedCount is incremented after each INSERT and
\* returned after the loop.  (copiedCountBeforeIncrement is the variant that
\* counts an INSERT only when the next one starts.)
copiedCountBeforeIncrement(inserted) ==
    IF Len(inserted) = 0 THEN 0 ELSE Len(inserted) - 1

copiedCount(inserted) == Len(inserted)

\* Lines 508-550: the loop over sourceTasks from position i on.  The
\* INSERT at position failAt is the one whose generated id is taken; the
\* error it raises leaves the loop, and the rows inserted so far stay.
\* The INSERT at line 530 raised: the loop is left through the catch at
\* line 554, which rethrows; nothing undoes the INSERTs already run.
\* (AfterFailedInsertUndone is the variant that takes the copies back.)
AfterFailedInsertUndone(table, inserted) ==
    [table    |-> {r \in table :
                      r.id \notin {inserted[k].id : k \in 1 .. Len(inserted)}},
     inserted |-> <<>>,
     threw    |-> TRUE]

AfterFailedInsert(table, inserted) ==
    [table |-> table, inserted |-> inserted, threw |-> TRUE]

RECURSIVE CopyLoop(_, _, _, _, _, _, _, _, _)
CopyLoop(table, issued, sourceTasks, i, inserted, options, tz, legacyParse, failAt) ==
    IF i > Len(sourceTasks)
    THEN [table |-> table, inserted |-> inserted, threw |-> FALSE]
    ELSE
        LET task == sourceTasks[i]
            newId == generateUUID(table, issued + Len(inserted), i = failAt)
            yearDiff == options.toYear - options.fromYear
            newDate == AdjustedDate(task.date, yearDiff, tz, legacyParse)
            ins == InsertRow(table, CopiedRow(task, newId, newDate, options))
        IN  IF ~ins.ok
            THEN AfterFailedInsert(table, inserted)
            ELSE CopyLoop(ins.table, issued, sourceTasks, i + 1,
                          Append(inserted, [source |-> task.id, id |-> newId]),
                          options, tz, legacyParse, failAt)

\* ------------------------------------------------------------------------
\* NewYearSetupScreen: generatePreview and performCopy
\* ------------------------------------------------------------------------
\* generatePreview's filter (lines 131-142) over getTasks(fromYear): a task
\* is kept as soon as one of the three tests accepts it.
\* task.category || '' is never in the list when the category is NULL.
PreviewFilter(task, copyOptions) ==
    \/ copyOptions.categories # {} /\ task.category \in copyOptions.categories
    \/ copyOptions.includeTemplates /\ task.isTemplate
    \/ copyOptions.includeNotes /\ task.type = "note"

generatePreview(table, copyOptions) ==
    {t \in getTasks(table, copyOptions.fromYear) : PreviewFilter(t, copyOptions)}

\* The options performCopy hands to copySelectedTasks (lines 177-184); an
\* empty category list is passed as undefined, which selects like the
\* empty list.
OptionOf(b) == IF b THEN OptTrue ELSE OptFalse
PerformCopyOptions(copyOptions, currentYear) ==
    [fromYear         |-> copyOptions.fromYear,
     toYear           |-> currentYear,
     categories       |-> copyOptions.categories,
     includeTemplates |-> OptionOf(copyOptions.includeTemplates),
     includeNotes     |-> OptionOf(copyOptions.includeNotes),
     resetCompletion  |-> OptionOf(copyOptions.resetCompletion)]

\* ------------------------------------------------------------------------
\* database.ts: deleteTask, with photoManager's cleanupTaskPhotos
\* ------------------------------------------------------------------------
\* cleanupTaskPhotos(photos): photos.map starts one deletePhoto call per
\* filename, all of them before any is awaited; Promise.all rejects when
\* one of them rejects, and the function re-raises.
cleanupTaskPhotos(photos, failing) ==
    [calls |-> Len(photos),
     threw |-> \E i \in 1 .. Len(photos) : i \in failing]

\* deleteTask(id): getTaskById raises for a missing id; the photos are
\* cleaned up when there are any; the DELETE runs only if nothing raised
\* before it.
deleteTask(table, id, failing) ==
    IF id \notin UsedIds(table)
    THEN [table |-> table, calls |-> 0, threw |-> TRUE]
    ELSE
        LET row == CHOOSE r \in table : r.id = id
            task == RowToTask(row)
            cleanup == IF Len(task.photos) > 0
                       THEN cleanupTaskPhotos(task.photos, failing)
                       ELSE [calls |-> 0, threw |-> FALSE]
        IN  IF cleanup.threw
            THEN [table |-> table, calls |-> cleanup.calls, threw |-> TRUE]
            ELSE [table |-> {r \in table : r.id # id},
                  calls |-> cleanup.calls, threw |-> FALSE]

\* ------------------------------------------------------------------------
\* database.ts: updateTask
\* ------------------------------------------------------------------------
\* The value stored for a key of the update (lines 328-338).
StoredValue(key, value) ==
    IF key = "photos" THEN JSONstringify(value)
    ELSE IF key \in {"completed", "isTemplate", "archived"} THEN BoolToInt(value)
    ELSE value

\* UPDATE tasks SET ... WHERE id = ?: the keys given are overwritten on the
\* row with that id, the others are kept.
updateTask(table, id, updates) ==
    {IF r.id = id
     THEN [k \in DOMAIN r |->
              IF k \in DOMAIN updates THEN StoredValue(k, updates[k]) ELSE r[k]]
     ELSE r : r \in table}

\* ------------------------------------------------------------------------
\* Inputs tried
\* ------------------------------------------------------------------------
Years == {2024, 2025}

\* A CreateTaskInput.  id = 0 and year = 0 stand for the field left out
\* (both are falsy in task.id || ..., task.year || ...).
TaskInput(title, type, cropId, date, notes, hasPhotos, photos, completed, year, isTemplate, category, archived) ==
    [id |-> 0, title |-> title, type |-> type, cropId |-> cropId,
     date |-> date, notes |-> notes, hasPhotos |-> hasPhotos,
     photos |-> photos, completed |-> completed, year |-> year,
     isTemplate |-> isTemplate, category |-> category, archived |-> archived]

TaskInputs ==
    { TaskInput("Peas", "task", "c1", DateText(MDY, 2024, 1, 15), "sow",
                TRUE, <<"p1.jpg", "p2.jpg">>, FALSE, 2024,
                FALSE, "seeding", FALSE),
      TaskInput("Frost", "note", Undefined, DateText(MDY, 2024, 2, 29), "",
                TRUE, <<"p3.jpg">>, TRUE, 2024,
                FALSE, "seeding", TRUE),
      TaskInput("Pick", "task", "c1", DateText(MDY, 2024, 1, 1), Undefined,
                TRUE, <<>>, TRUE, 2024,
                TRUE, "harvesting", FALSE),
      TaskInput("Plan", "task", Undefined, DateText(MDY, 2025, 12, 31), "",
                FALSE, <<>>, FALSE, 2025,
                FALSE, Undefined, FALSE) }

CategoryChoices == {{}, {"seeding"}}

\* The (fromYear, toYear) pairs tried: a copy into the next year, and a
\* copy within one year.
YearPairs == {<<2024, 2025>>, <<2024, 2024>>}

CopyYearOptions ==
    {[fromYear |-> p[1], toYear |-> p[2], categories |-> c,
      includeTemplates |-> t, includeNotes |-> n, resetCompletion |-> r] :
        p \in YearPairs, c \in CategoryChoices,
        t \in {OptTrue, OptFalse}, n \in {OptFalse, Undefined},
        r \in OptionalBoolean}

\* The New Year Setup screen's own option record (all switches set).
CopyOptions ==
    [fromYear : Years, categories : CategoryChoices,
     includeTemplates : BOOLEAN, includeNotes : BOOLEAN,
     resetCompletion : {TRUE}]

UpdateInputs == {[completed |-> TRUE], [completed |-> FALSE]}

\* ------------------------------------------------------------------------
\* The state machine
\* ------------------------------------------------------------------------
\* `last` holds the arguments and the outcome of the call that has just
\* returned, until its caller has taken them (Return); no call is in
\* progress while another's outcome is pending (calls are awaited one
\* after the other).
Idle == [op |-> "idle"]

\* The devices tried.
Devices == [tz : TzOffsets, legacyParse : BOOLEAN]

\* The columns of the tables once initDatabase has run (database.ts:79-124,
\* settings.ts:29-36).
TasksBaseColumns == {"id", "title", "cropId", "date", "notes", "completed", "year"}
TasksAddedColumns == {"photos", "type", "isTemplate", "category", "archived"}
SettingsBaseColumns ==
    {"id", "frost_start_date", "frost_end_date", "current_year",
     "notifications_enabled"}
SettingsAddedColumns == {"save_to_photo_library"}
FullSchema ==
    [tasks    |-> TasksBaseColumns \cup TasksAddedColumns,
     settings |-> SettingsBaseColumns \cup SettingsAddedColumns]

\* After initDatabase on a new installation: the tables exist and are empty
\* (the crops table is filled by initCropDatabase).
\* MainScreen's state at its first render (MainScreen.tsx:31-33).
MainScreenFirstRender == [currentYear |-> getFullYear(Now), tasks |-> {}]

Init ==
    /\ tasks = {}
    /\ uuids = 0
    /\ device \in Devices
    /\ settings = <<>>
    /\ crops = {}
    /\ schema = FullSchema
    /\ screen = MainScreenFirstRender
    /\ last = Idle

\* createTask(task)
CreateTask(task, collide) ==
    /\ last = Idle
    /\ uuids < MaxCreated
    /\ LET ins == InsertRow(tasks,
                     CreateTaskRow(task, generateUUID(tasks, uuids, collide)))
       IN  /\ tasks' = ins.table
           /\ uuids' = IF ins.ok THEN uuids + 1 ELSE uuids
           /\ last' = [op |-> "createTask", threw |-> ~ins.ok]
    /\ UNCHANGED <<device, screen, others>>

\* updateTask(id, updates), as MainScreen's handleToggleComplete calls it
UpdateTask(id, updates) ==
    /\ last = Idle
    /\ id \in UsedIds(tasks)
    /\ tasks' = updateTask(tasks, id, updates)
    /\ last' = [op |-> "updateTask", threw |-> FALSE]
    /\ UNCHANGED <<uuids, device, screen, others>>

\* deleteTask(id); failing: the positions of the photos whose release fails
DeleteTask(id, failing) ==
    /\ last = Idle
    /\ LET res == deleteTask(tasks, id, failing)
       IN  /\ tasks' = res.table
           /\ last' = [op |-> "deleteTask", id |-> id, before |-> tasks,
                       calls |-> res.calls, threw |-> res.threw]
    /\ UNCHANGED <<uuids, device, screen, others>>

\* copySelectedTasks(options)
CopySelectedTasks(options) ==
    /\ last = Idle
    /\ LET selected == SelectSourceTasks(tasks, options)
       IN  /\ uuids + Cardinality(selected) <= MaxTasks
           /\ \E sourceTasks \in OrderedByDate(selected),
                 failAt \in 0 .. Cardinality(selected) :
                 LET res == CopyLoop(tasks, uuids, sourceTasks, 1, <<>>, options,
                                     device.tz, device.legacyParse, failAt)
                 IN  /\ tasks' = res.table
                     /\ uuids' = uuids + Len(res.inserted)
                     /\ last' = [op |-> "copySelectedTasks",
                                 options |-> options,
                                 before |-> tasks,
                                 inserted |-> res.inserted,
                                 threw |-> res.threw,
                                 failAt |-> failAt,
                                 selected |-> Cardinality(selected),
                                 count |-> IF res.threw THEN -1
                                           ELSE copiedCount(res.inserted)]
    /\ UNCHANGED <<device, screen, others>>

\* The New Year Setup screen's Preview button
GeneratePreview(copyOptions) ==
    /\ last = Idle
    /\ last' = [op |-> "generatePreview",
                copyOptions |-> copyOptions,
                before |-> tasks,
                previewTasks |-> generatePreview(tasks, copyOptions)]
    /\ UNCHANGED <<tasks, uuids, device, screen, others>>

\* The caller takes the outcome of the call.
Return ==
    /\ last # Idle
    /\ last' = Idle
    /\ UNCHANGED <<tasks, uuids, device, screen, others>>

Next ==
    \/ \E task \in TaskInputs, collide \in BOOLEAN : CreateTask(task, collide)
    \/ \E id \in Ids, updates \in UpdateInputs : UpdateTask(id, updates)
    \/ \E id \in Ids, failing \in SUBSET {1, 2} : DeleteTask(id, failing)
    \/ \E options \in CopyYearOptions : CopySelectedTasks(options)
    \/ \E copyOptions \in CopyOptions : GeneratePreview(copyOptions)
    \/ Return

Spec == Init /\ [][Next]_vars

\* ------------------------------------------------------------------------
\* calculatePlantingDate on its own: every frost date of the years tried,
\* every weeksBeforeFrost up to MaxWeeks
\* ------------------------------------------------------------------------
\* The frost dates tried: local midnight of every day of the years tried
\* (what date-fns parse gives for the MM-dd text of the settings).
FrostDates ==
    UNION {{DateObject(ym[1], ym[2], d, 0) : d \in 1 .. DaysInMonth(ym[1], ym[2])} :
              ym \in Years \X (1 .. 12)}

\* The crops tried: only weeksBeforeFrost matters to the calculation.
Crops == [id : {"c1"}, weeksBeforeFrost : 0 .. MaxWeeks]

\* calculatePlantingDate(crop, frostDate), the frost date being the only
\* Date object alive before the call (reference 1).
CalculatePlantingDate(crop, frostDate) ==
    /\ last = Idle
    /\ LET res == calculatePlantingDate(<<frostDate>>, crop, 1)
       IN  last' = [op |-> "calculatePlantingDate",
                    crop |-> crop,
                    frostBefore |-> frostDate,
                    frostAfter |-> res.heap[1],
                    plantingDate |-> res.heap[res.ref]]
    /\ UNCHANGED <<tasks, uuids, device, screen, others>>

NextPlanting ==
    \/ \E crop \in Crops, frostDate \in FrostDates :
           CalculatePlantingDate(crop, frostDate)
    \/ Return

SpecPlanting == Init /\ [][NextPlanting]_vars

\* ------------------------------------------------------------------------
\* settings.ts: saveSettings and getSettings
\* ------------------------------------------------------------------------
MaxSettings == 3      \* rows inserted into the settings table during a run

\* The row saveSettings inserts (lines 108-112); its id is the next
\* AUTOINCREMENT value, so the rows are kept in the order of their ids.
SettingsRow(s) ==
    [frost_start_date      |-> s.frostStartDate,
     frost_end_date        |-> s.frostEndDate,
     current_year          |-> s.currentYear,
     notifications_enabled |-> BoolToInt(s.notificationsEnabled),
     save_to_photo_library |-> BoolToInt(s.saveToPhotoLibrary)]

saveSettings(table, s) == Append(table, SettingsRow(s))

\* The GardenSettings object built from a row (lines 76-82).
RowToSettings(row) ==
    [frostStartDate       |-> row.frost_start_date,
     frostEndDate         |-> row.frost_end_date,
     currentYear          |-> row.current_year,
     notificationsEnabled |-> IntToBool(row.notifications_enabled),
     saveToPhotoLibrary   |-> IntToBool(row.save_to_photo_library)]

\* Lines 86-92.
defaultSettings ==
    [frostStartDate       |-> "10-03",
     frostEndDate         |-> "05-11",
     currentYear          |-> getFullYear(Now),
     notificationsEnabled |-> TRUE,
     saveToPhotoLibrary   |-> FALSE]

\* SELECT * FROM settings ORDER BY id DESC LIMIT 1 on a table with rows.
\* (OldestRow is the variant that orders by id ascending.)
OldestRow(table) == table[1]

MostRecentRow(table) == table[Len(table)]

\* Line 95: the defaults are saved before they are returned.
\* (DefaultsNotSaved is the variant that only returns them.)
DefaultsNotSaved(table) == table

SaveDefaults(table) == saveSettings(table, defaultSettings)

\* getSettings(): the table after the call and the object returned.
getSettings(table) ==
    IF Len(table) > 0
    THEN [table |-> table, result |-> RowToSettings(MostRecentRow(table))]
    ELSE [table |-> SaveDefaults(table), result |-> defaultSettings]

\* The GardenSettings objects saved by the Settings screen in the runs.
SettingsInputs ==
    { [frostStartDate |-> "10-03", frostEndDate |-> "05-11", currentYear |-> 2026,
       notificationsEnabled |-> TRUE, saveToPhotoLibrary |-> TRUE],
      [frostStartDate |-> "09-20", frostEndDate |-> "04-15", currentYear |-> 2024,
       notificationsEnabled |-> FALSE, saveToPhotoLibrary |-> TRUE],
      [frostStartDate |-> "09-20", frostEndDate |-> "05-11", currentYear |-> 2025,
       notificationsEnabled |-> FALSE, saveToPhotoLibrary |-> FALSE] }

\* saveSettings(settings)
SaveSettings(s) ==
    /\ last = Idle
    /\ Len(settings) < MaxSettings
    /\ settings' = saveSettings(settings, s)
    /\ last' = [op |-> "saveSettings", settings |-> s, before |-> settings]
    /\ UNCHANGED <<tasks, uuids, device, screen, crops, schema>>

\* getSettings()
GetSettings ==
    /\ last = Idle
    /\ LET res == getSettings(settings)
       IN  /\ settings' = res.table
           /\ last' = [op |-> "getSettings", result |-> res.result,
                       before |-> settings]
    /\ UNCHANGED <<tasks, uuids, device, screen, crops, schema>>

NextSettings ==
    \/ \E s \in SettingsInputs : SaveSettings(s)
    \/ GetSettings
    \/ Return

SpecSettings == Init /\ [][NextSettings]_vars

\* ------------------------------------------------------------------------
\* database.ts: the read operations, and updateTask with its outcome
\* ------------------------------------------------------------------------
\* columnExists (lines 32-42): whether PRAGMA table_info lists the column.
columnExists(sch, tableName, columnName) == columnName \in sch[tableName]

\* buildTaskQuery (lines 45-56): the rows the query built from a base query
\* lets through; the archived test is added when the column exists.
\* (ArchivedFilterDropped is the variant that never adds the test.)
ArchivedFilterDropped(sch, row) == TRUE

buildTaskQuery(sch, row) ==
    IF columnExists(sch, "tasks", "archived") THEN NotArchived(row) ELSE TRUE

\* getTasks(year), lines 237-256, through buildTaskQuery.
getTasksOfYear(sch, table, year) ==
    {RowToTask(r) : r \in {x \in table : x.year = year /\ buildTaskQuery(sch, x)}}

\* getTasksByType(year, type), lines 269-287.
getTasksByType(sch, table, year, type) ==
    {RowToTask(r) : r \in {x \in table : /\ x.year = year
                                         /\ x.type = type
                                         /\ buildTaskQuery(sch, x)}}

\* The list of the numbers of a set, largest first.
RECURSIVE Descending(_)
Descending(S) ==
    IF S = {} THEN <<>>
    ELSE LET top == CHOOSE x \in S : \A y \in S : y <= x
         IN  <<top>> \o Descending(S \ {top})

\* getAvailableYears(): SELECT DISTINCT year FROM tasks ORDER BY year DESC.
\* (getAvailableYearsVisible is the variant whose query goes through
\* the archived test, as the year queries do.)
getAvailableYearsVisible(table) ==
    Descending({r.year : r \in {x \in table : NotArchived(x)}})

getAvailableYears(table) == Descending({r.year : r \in table})

\* Line 329: entries whose value is undefined are dropped.  (Only the text
\* fields are tried with an undefined value.)
TextKeys == {"title", "notes", "cropId", "category"}
IsDefinedEntry(updates, key) == ~(key \in TextKeys /\ updates[key] = Undefined)
processedUpdates(updates) ==
    LET keys == {k \in DOMAIN updates : IsDefinedEntry(updates, k)}
    IN  [k \in keys |-> updates[k]]

\* updateTask(id, updates) as a whole (lines 326-357).  With no entry left
\* the statement reads UPDATE tasks SET  WHERE id = ?, which SQLite refuses;
\* otherwise the row is written and getTaskById(id) re-reads it, raising
\* 'Task not found' when there is no such row.
updateTaskOutcome(table, id, updates) ==
    LET processed == processedUpdates(updates)
    IN  IF DOMAIN processed = {}
        THEN [table |-> table, threw |-> TRUE, error |-> "syntax error",
              result |-> Null]
        ELSE LET written == updateTask(table, id, processed)
             IN  IF id \notin UsedIds(written)
                 THEN [table |-> written, threw |-> TRUE,
                       error |-> "Task not found", result |-> Null]
                 ELSE [table |-> written, threw |-> FALSE, error |-> "",
                       result |-> RowToTask(CHOOSE r \in written : r.id = id)]

\* The partial inputs tried.
PartialInputs ==
    { [completed |-> TRUE],
      [title |-> "Peas II", notes |-> Undefined],
      [date |-> DateText(MDY, 2025, 4, 1), year |-> 2025],
      [archived |-> TRUE],
      [photos |-> <<"p9.jpg">>],
      [notes |-> Undefined],
      <<>> }

\* updateTask(id, updates), outcome kept
UpdateTaskCall(id, updates) ==
    /\ last = Idle
    /\ LET out == updateTaskOutcome(tasks, id, updates)
       IN  /\ tasks' = out.table
           /\ last' = [op |-> "updateTask", id |-> id, updates |-> updates,
                       before |-> tasks, threw |-> out.threw,
                       error |-> out.error, result |-> out.result]
    /\ UNCHANGED <<uuids, device, screen, others>>

\* getTasks(year)
GetTasks(year) ==
    /\ last = Idle
    /\ last' = [op |-> "getTasks", year |-> year,
                result |-> getTasksOfYear(schema, tasks, year)]
    /\ UNCHANGED <<tasks, uuids, device, screen, others>>

\* getTasksByType(year, type)
GetTasksByType(year, type) ==
    /\ last = Idle
    /\ last' = [op |-> "getTasksByType", year |-> year, type |-> type,
                result |-> getTasksByType(schema, tasks, year, type)]
    /\ UNCHANGED <<tasks, uuids, device, screen, others>>

\* getAvailableYears()
GetAvailableYears ==
    /\ last = Idle
    /\ last' = [op |-> "getAvailableYears", result |-> getAvailableYears(tasks)]
    /\ UNCHANGED <<tasks, uuids, device, screen, others>>

NextQueries ==
    \/ \E task \in TaskInputs, collide \in BOOLEAN : CreateTask(task, collide)
    \/ \E id \in Ids, updates \in PartialInputs : UpdateTaskCall(id, updates)
    \/ \E year \in Years : GetTasks(year)
    \/ \E year \in Years, type \in {"task", "note"} : GetTasksByType(year, type)
    \/ GetAvailableYears
    \/ Return

SpecQueries == Init /\ [][NextQueries]_vars

\* ------------------------------------------------------------------------
\* cropDatabase.ts: the seed catalog, initCropDatabase and getCrops
\* ------------------------------------------------------------------------
\* A line of the embedded CSV text: three fields.  A number field is the
\* digits written in it and the text after them.
CsvLine(a, b, c) == [name |-> a, weeksBeforeFrost |-> b, daysToMaturity |-> c]
CsvNumber(digits, rest) == [digits |-> digits, rest |-> rest]

\* Lines 21-56, the header line first.
DEFAULT_CROPS_CSV ==
    << CsvLine("name", "weeksBeforeFrost", "daysToMaturity"),
       CsvLine("Ageratum", CsvNumber(<<7>>, ""), CsvNumber(<<8, 0>>, "")),
       CsvLine("Amaranth", CsvNumber(<<4>>, ""), CsvNumber(<<6, 5>>, "")),
       CsvLine("Basil", CsvNumber(<<0>>, ""), CsvNumber(<<5, 5>>, "")),
       CsvLine("Beans", CsvNumber(<<0>>, ""), CsvNumber(<<5, 5>>, "")),
       CsvLine("Beets", CsvNumber(<<8>>, ""), CsvNumber(<<5, 5>>, "")),
       CsvLine("Bok Choi", CsvNumber(<<6>>, ""), CsvNumber(<<5, 5>>, "")),
       CsvLine("Broccoli", CsvNumber(<<8>>, ""), CsvNumber(<<6, 0>>, "")),
       CsvLine("Brussels Sprouts", CsvNumber(<<8>>, ""), CsvNumber(<<9, 0>>, "")),
       CsvLine("Cabbage", CsvNumber(<<8>>, ""), CsvNumber(<<7, 0>>, "")),
       CsvLine("Carrots", CsvNumber(<<8>>, ""), CsvNumber(<<7, 5>>, "")),
       CsvLine("Cauliflower", CsvNumber(<<8>>, ""), CsvNumber(<<6, 0>>, "")),
       CsvLine("Celosia", CsvNumber(<<6>>, ""), CsvNumber(<<9, 0>>, "")),
       CsvLine("Cilantro", CsvNumber(<<4>>, ""), CsvNumber(<<5, 5>>, " ")),
       CsvLine("Collards", CsvNumber(<<8>>, ""), CsvNumber(<<5, 5>>, "")),
       CsvLine("Corn", CsvNumber(<<0>>, ""), CsvNumber(<<7, 0>>, "")),
       CsvLine("Cucumbers", CsvNumber(<<4>>, ""), CsvNumber(<<5, 5>>, "")),
       CsvLine("Eggplant", CsvNumber(<<6>>, ""), CsvNumber(<<6, 5>>, "")),
       CsvLine("Ground Cherry", CsvNumber(<<6>>, ""), CsvNumber(<<7, 5>>, "")),
       CsvLine("Kale", CsvNumber(<<8>>, ""), CsvNumber(<<5, 5>>, "")),
       CsvLine("Lavender", CsvNumber(<<8>>, ""), CsvNumber(<<1, 0, 0>>, "")),
       CsvLine("Lettuce", CsvNumber(<<8>>, ""), CsvNumber(<<4, 5>>, "")),
       CsvLine("Melons", CsvNumber(<<4>>, ""), CsvNumber(<<7, 5>>, "")),
       CsvLine("Onions", CsvNumber(<<6>>, ""), CsvNumber(<<1, 0, 0>>, "")),
       CsvLine("Parsley", CsvNumber(<<8>>, ""), CsvNumber(<<7, 5>>, "")),
       CsvLine("Peas", CsvNumber(<<4>>, ""), CsvNumber(<<6, 0>>, "")),
       CsvLine("Peppers", CsvNumber(<<8>>, ""), CsvNumber(<<6, 5>>, "")),
       CsvLine("Potatoes", CsvNumber(<<4>>, ""), CsvNumber(<<9, 0>>, "")),
       CsvLine("Pumpkins", CsvNumber(<<3>>, ""), CsvNumber(<<9, 0>>, "")),
       CsvLine("Radishes", CsvNumber(<<8>>, ""), CsvNumber(<<3, 0>>, "")),
       CsvLine("Spinach", CsvNumber(<<8>>, ""), CsvNumber(<<4, 0>>, "")),
       CsvLine("Sweet Potatoes", CsvNumber(<<0>>, ""), CsvNumber(<<1, 0, 0>>, "")),
       CsvLine("Swiss Chard", CsvNumber(<<8>>, ""), CsvNumber(<<5, 5>>, "")),
       CsvLine("Tomatoes", CsvNumber(<<6>>, ""), CsvNumber(<<7, 0>>, "")),
       CsvLine("Winter Squash", CsvNumber(<<3>>, ""), CsvNumber(<<9, 0>>, "")),
       CsvLine("Zucchini", CsvNumber(<<3>>, ""), CsvNumber(<<5, 0>>, "")) >>

\* Papa.parse(text, {header: true, skipEmptyLines: true}).data: the first
\* line names the fields, every other line is one record.
\* (PapaParseFirstRecordLost is the variant that drops a record with it.)
PapaParseFirstRecordLost(csv) == Tail(Tail(csv))

PapaParse(csv) == Tail(csv)

\* parseInt(text): the number the leading digits write; what follows them
\* is ignored.
RECURSIVE DigitsValue(_)
DigitsValue(digits) ==
    IF digits = <<>> THEN 0
    ELSE 10 * DigitsValue(SubSeq(digits, 1, Len(digits) - 1)) + digits[Len(digits)]

parseInt(field) == DigitsValue(field.digits)

\* The characters of the seed names, as code units: ORDER BY name compares
\* them one by one.
CodeUnits(name) ==
    CASE name = "Ageratum" -> <<65, 103, 101, 114, 97, 116, 117, 109>>
      [] name = "Amaranth" -> <<65, 109, 97, 114, 97, 110, 116, 104>>
      [] name = "Basil" -> <<66, 97, 115, 105, 108>>
      [] name = "Beans" -> <<66, 101, 97, 110, 115>>
      [] name = "Beets" -> <<66, 101, 101, 116, 115>>
      [] name = "Bok Choi" -> <<66, 111, 107, 32, 67, 104, 111, 105>>
      [] name = "Broccoli" -> <<66, 114, 111, 99, 99, 111, 108, 105>>
      [] name = "Brussels Sprouts" -> <<66, 114, 117, 115, 115, 101, 108, 115, 32, 83, 112, 114, 111, 117, 116, 115>>
      [] name = "Cabbage" -> <<67, 97, 98, 98, 97, 103, 101>>
      [] name = "Carrots" -> <<67, 97, 114, 114, 111, 116, 115>>
      [] name = "Cauliflower" -> <<67, 97, 117, 108, 105, 102, 108, 111, 119, 101, 114>>
      [] name = "Celosia" -> <<67, 101, 108, 111, 115, 105, 97>>
      [] name = "Cilantro" -> <<67, 105, 108, 97, 110, 116, 114, 111>>
      [] name = "Collards" -> <<67, 111, 108, 108, 97, 114, 100, 115>>
      [] name = "Corn" -> <<67, 111, 114, 110>>
      [] name = "Cucumbers" -> <<67, 117, 99, 117, 109, 98, 101, 114, 115>>
      [] name = "Eggplant" -> <<69, 103, 103, 112, 108, 97, 110, 116>>
      [] name = "Ground Cherry" -> <<71, 114, 111, 117, 110, 100, 32, 67, 104, 101, 114, 114, 121>>
      [] name = "Kale" -> <<75, 97, 108, 101>>
      [] name = "Lavender" -> <<76, 97, 118, 101, 110, 100, 101, 114>>
      [] name = "Lettuce" -> <<76, 101, 116, 116, 117, 99, 101>>
      [] name = "Melons" -> <<77, 101, 108, 111, 110, 115>>
      [] name = "Onions" -> <<79, 110, 105, 111, 110, 115>>
      [] name = "Parsley" -> <<80, 97, 114, 115, 108, 101, 121>>
      [] name = "Peas" -> <<80, 101, 97, 115>>
      [] name = "Peppers" -> <<80, 101, 112, 112, 101, 114, 115>>
      [] name = "Potatoes" -> <<80, 111, 116, 97, 116, 111, 101, 115>>
      [] name = "Pumpkins" -> <<80, 117, 109, 112, 107, 105, 110, 115>>
      [] name = "Radishes" -> <<82, 97, 100, 105, 115, 104, 101, 115>>
      [] name = "Spinach" -> <<83, 112, 105, 110, 97, 99, 104>>
      [] name = "Sweet Potatoes" -> <<83, 119, 101, 101, 116, 32, 80, 111, 116, 97, 116, 111, 101, 115>>
      [] name = "Swiss Chard" -> <<83, 119, 105, 115, 115, 32, 67, 104, 97, 114, 100>>
      [] name = "Tomatoes" -> <<84, 111, 109, 97, 116, 111, 101, 115>>
      [] name = "Winter Squash" -> <<87, 105, 110, 116, 101, 114, 32, 83, 113, 117, 97, 115, 104>>
      [] name = "Zucchini" -> <<90, 117, 99, 99, 104, 105, 110, 105>>

RECURSIVE CodesLess(_, _)
CodesLess(a, b) ==
    IF b = <<>> THEN FALSE
    ELSE IF a = <<>> THEN TRUE
    ELSE IF a[1] # b[1] THEN a[1] < b[1]
    ELSE CodesLess(Tail(a), Tail(b))

NameLess(a, b) == CodesLess(CodeUnits(a), CodeUnits(b))

\* The identifier generateUUID (cropDatabase.ts:12-18) gives the next crop:
\* one no crop has, or the one a stored crop has.
cropUUID(table, collide) ==
    IF collide /\ table # {} THEN CollidingId(table) ELSE Cardinality(table) + 1

\* Lines 97-108: the INSERTs for the records from position i on; the one at
\* position failAt draws a taken id and raises, the rows before it stay.
RECURSIVE SeedLoop(_, _, _, _)
SeedLoop(table, data, i, failAt) ==
    IF i > Len(data) THEN [table |-> table, threw |-> FALSE]
    ELSE LET crop == data[i]
             ins == InsertRow(table,
                        [id               |-> cropUUID(table, i = failAt),
                         name             |-> crop.name,
                         weeksBeforeFrost |-> parseInt(crop.weeksBeforeFrost),
                         daysToMaturity   |-> parseInt(crop.daysToMaturity)])
         IN  IF ~ins.ok THEN [table |-> table, threw |-> TRUE]
             ELSE SeedLoop(ins.table, data, i + 1, failAt)

\* initCropDatabase(): the table is seeded only when it has no row.
initCropDatabase(table, failAt) ==
    IF Cardinality(table) = 0
    THEN SeedLoop(table, PapaParse(DEFAULT_CROPS_CSV), 1, failAt)
    ELSE [table |-> table, threw |-> FALSE]

\* getCrops(): SELECT * FROM crops ORDER BY name, as a list.  (Rows with
\* equal names have no fixed order; the seed names are all different.)
RECURSIVE OrderedByName(_)
OrderedByName(rows) ==
    IF rows = {} THEN <<>>
    ELSE LET first == CHOOSE r \in rows :
                          \A o \in rows : ~NameLess(o.name, r.name)
         IN  <<first>> \o OrderedByName(rows \ {first})

getCrops(table) == OrderedByName(table)

\* initCropDatabase()
InitCropDatabase(failAt) ==
    /\ last = Idle
    /\ LET res == initCropDatabase(crops, failAt)
       IN  /\ crops' = res.table
           /\ last' = [op |-> "initCropDatabase", before |-> crops,
                       threw |-> res.threw]
    /\ UNCHANGED <<tasks, uuids, device, screen, settings, schema>>

\* getCrops()
GetCrops ==
    /\ last = Idle
    /\ last' = [op |-> "getCrops", result |-> getCrops(crops)]
    /\ UNCHANGED <<tasks, uuids, device, screen, settings, crops, schema>>

NextCrops ==
    \/ \E failAt \in 0 .. Len(PapaParse(DEFAULT_CROPS_CSV)) : InitCropDatabase(failAt)
    \/ GetCrops
    \/ Return

SpecCrops == Init /\ [][NextCrops]_vars

\* ------------------------------------------------------------------------
\* database.ts: initDatabase, with settings.ts: initSettingsTable, on a
\* store left by any earlier version of the schema
\* ------------------------------------------------------------------------
\* The value a row gets for a column added by ALTER TABLE ... ADD COLUMN:
\* the column's DEFAULT, NULL without one.
ColumnDefault(column) ==
    CASE column = "photos"                -> NullPhotos
      [] column = "type"                  -> "task"
      [] column = "isTemplate"            -> 0
      [] column = "category"              -> Null
      [] column = "archived"              -> 0
      [] column = "save_to_photo_library" -> 0

\* A row with one more column.
WithColumn(row, column) ==
    [k \in DOMAIN row \cup {column} |->
        IF k \in DOMAIN row THEN row[k] ELSE ColumnDefault(column)]

\* CREATE TABLE IF NOT EXISTS: a table that exists is left as it is.
\* (DropAndCreateTable is the variant of the commented-out lines 126-140,
\* DROP TABLE IF EXISTS followed by CREATE TABLE.)
DropAndCreateTable(t, columns) == [columns |-> columns, rows |-> {}, raised |-> FALSE]

CreateTableIfNotExists(t, columns) ==
    IF t.columns = {} THEN [columns |-> columns, rows |-> {}, raised |-> FALSE]
    ELSE t

\* ALTER TABLE ... ADD COLUMN: refused with 'duplicate column name' when
\* the table has the column; otherwise every row gets the default.
AddColumn(t, column) ==
    IF column \in t.columns THEN [t EXCEPT !.raised = TRUE]
    ELSE [columns |-> t.columns \cup {column},
          rows    |-> {WithColumn(r, column) : r \in t.rows},
          raised  |-> FALSE]

\* try { ALTER TABLE ... } catch (error) { }: the refusal is dropped.
TryAddColumn(t, column) == [AddColumn(t, column) EXCEPT !.raised = FALSE]

\* initDatabase lines 77-124 on the tasks table.
InitTasksTable(t) ==
    LET t0 == CreateTableIfNotExists(t, TasksBaseColumns \cup {"type", "photos"})
        t1 == TryAddColumn(t0, "photos")
        t2 == TryAddColumn(t1, "type")
        t3 == TryAddColumn(t2, "isTemplate")
        t4 == TryAddColumn(t3, "category")
    IN  TryAddColumn(t4, "archived")

\* initSettingsTable (settings.ts:22-60): the column is added only when
\* PRAGMA table_info does not list it.
initSettingsTable(t) ==
    LET t0 == CreateTableIfNotExists(t, SettingsBaseColumns \cup SettingsAddedColumns)
        hasPhotoLibraryColumn == "save_to_photo_library" \in t0.columns
    IN  IF ~hasPhotoLibraryColumn
        THEN TryAddColumn(t0, "save_to_photo_library")
        ELSE t0

\* initDatabase(): the schema and the rows after the call.
initDatabase(sch, taskRows, settingsRows) ==
    LET t == InitTasksTable([columns |-> sch.tasks, rows |-> taskRows,
                             raised |-> FALSE])
        st == initSettingsTable([columns |-> sch.settings, rows |-> {},
                                 raised |-> FALSE])
        added == st.columns \ sch.settings
        srows == IF sch.settings # {} /\ "save_to_photo_library" \in added
                 THEN [i \in 1 .. Len(settingsRows) |->
                          WithColumn(settingsRows[i], "save_to_photo_library")]
                 ELSE settingsRows
    IN  [schema   |-> [tasks |-> t.columns, settings |-> st.columns],
         tasks    |-> t.rows,
         settings |-> srows,
         threw    |-> t.raised \/ st.raised]

\* A row as an earlier schema held it: only the columns that table had.
Project(row, columns) == [k \in DOMAIN row \cap columns |-> row[k]]

\* The schemas an installation can have before initDatabase runs: no table,
\* or the base columns with any of the columns added later.
LegacySchemas ==
    [tasks    : {{}} \cup {TasksBaseColumns \cup added :
                              added \in SUBSET TasksAddedColumns},
     settings : {{}} \cup {SettingsBaseColumns \cup added :
                              added \in SUBSET SettingsAddedColumns}]

\* The rows such an installation holds.
LegacyTaskRows ==
    LET peas  == CHOOSE t \in TaskInputs : t.title = "Peas"
        frost == CHOOSE t \in TaskInputs : t.title = "Frost"
    IN  { {}, {CreateTaskRow(peas, 1)},
          {CreateTaskRow(peas, 1), CreateTaskRow(frost, 2)} }
LegacySettingsRows ==
    { <<>> } \cup {<<SettingsRow(s)>> : s \in SettingsInputs}

\* The store as an earlier version of the app left it.
InitLegacy ==
    /\ schema \in LegacySchemas
    /\ \E rows \in LegacyTaskRows :
           /\ (schema.tasks = {} => rows = {})
           /\ tasks = {Project(r, schema.tasks) : r \in rows}
           /\ uuids = Cardinality(rows)
    /\ \E rows \in LegacySettingsRows :
           /\ (schema.settings = {} => rows = <<>>)
           /\ settings = [i \in 1 .. Len(rows) |-> Project(rows[i], schema.settings)]
    /\ device \in Devices
    /\ crops = {}
    /\ screen = MainScreenFirstRender
    /\ last = Idle

\* initDatabase()
InitDatabase ==
    /\ last = Idle
    /\ LET res == initDatabase(schema, tasks, settings)
       IN  /\ schema' = res.schema
           /\ tasks' = res.tasks
           /\ settings' = res.settings
           /\ last' = [op |-> "initDatabase", threw |-> res.threw,
                       schemaBefore |-> schema, tasksBefore |-> tasks,
                       settingsBefore |-> settings]
    /\ UNCHANGED <<uuids, device, screen, crops>>

NextSchema ==
    \/ InitDatabase
    \/ Return

SpecSchema == InitLegacy /\ [][NextSchema]_vars

\* ------------------------------------------------------------------------
\* databaseBackup.ts: importDatabase
\* ------------------------------------------------------------------------
\* The parsed backup file is a record [version, timestamp, data]; a data
\* member that is absent is written NoData, one that is there has the
\* lists tasks, crops and settings.
NoData == [present |-> FALSE]
BackupData(taskList, cropList, settingsList) ==
    [present |-> TRUE, tasks |-> taskList, crops |-> cropList,
     settings |-> settingsList]

\* Line 97: !backup.version || !backup.timestamp || !backup.data
\* (VersionOnlyChecked is the variant that looks at the version alone.)
VersionOnlyChecked(backup) == IsFalsyText(backup.version)

InvalidBackup(backup) ==
    \/ IsFalsyText(backup.version)
    \/ IsFalsyText(backup.timestamp)
    \/ ~backup.data.present

\* A statement that binds no value (null or undefined) to a NOT NULL text
\* column is refused.
NotNullViolated(v) == v \in {Null, Undefined}

\* Lines 120-126: INSERT INTO crops for the crops from position i on.  The
\* loop stops at the first statement that raises.
RECURSIVE ImportCrops(_, _, _)
ImportCrops(table, cropList, i) ==
    IF i > Len(cropList) THEN [ok |-> TRUE, table |-> table]
    ELSE LET crop == cropList[i]
             ins == InsertRow(table,
                        [id               |-> crop.id,
                         name             |-> crop.name,
                         weeksBeforeFrost |-> crop.weeksBeforeFrost,
                         daysToMaturity   |-> crop.daysToMaturity])
         IN  IF NotNullViolated(crop.name) \/ ~ins.ok
             THEN [ok |-> FALSE, table |-> table]
             ELSE ImportCrops(ins.table, cropList, i + 1)

\* Lines 132-143: the tasks row the import writes: seven columns are
\* bound, the others take their defaults.
ImportedTaskRow(task) ==
    [id         |-> task.id,
     title      |-> task.title,
     type       |-> ColumnDefault("type"),
     cropId     |-> IF task.cropId = Undefined THEN Null ELSE task.cropId,
     date       |-> task.date,
     notes      |-> IF task.notes = Undefined THEN Null ELSE task.notes,
     photos     |-> ColumnDefault("photos"),
     completed  |-> BoolToInt(task.completed),
     year       |-> task.year,
     isTemplate |-> ColumnDefault("isTemplate"),
     category   |-> ColumnDefault("category"),
     archived   |-> ColumnDefault("archived")]

\* Lines 130-144: INSERT INTO tasks for the tasks from position i on.
RECURSIVE ImportTasks(_, _, _)
ImportTasks(table, taskList, i) ==
    IF i > Len(taskList) THEN [ok |-> TRUE, table |-> table]
    ELSE LET task == taskList[i]
             ins == InsertRow(table, ImportedTaskRow(task))
         IN  IF NotNullViolated(task.title) \/ ~ins.ok
             THEN [ok |-> FALSE, table |-> table]
             ELSE ImportTasks(ins.table, taskList, i + 1)

\* Lines 148-160: the first settings object of the backup is inserted;
\* save_to_photo_library is not bound and takes its default.
ImportSettings(table, settingsList) ==
    IF Len(settingsList) > 0
    THEN LET s == settingsList[1]
         IN  IF NotNullViolated(s.frostStartDate) \/ NotNullViolated(s.frostEndDate)
             THEN [ok |-> FALSE, table |-> table]
             ELSE [ok |-> TRUE,
                   table |-> Append(table,
                       [frost_start_date      |-> s.frostStartDate,
                        frost_end_date        |-> s.frostEndDate,
                        current_year          |-> s.currentYear,
                        notifications_enabled |-> BoolToInt(s.notificationsEnabled),
                        save_to_photo_library |-> ColumnDefault("save_to_photo_library")])]
    ELSE [ok |-> TRUE, table |-> table]

\* ROLLBACK (line 171): the three tables are what they were at BEGIN
\* TRANSACTION.  (NoRollback is the variant that leaves what the
\* statements before the failure wrote.)
NoRollback(atBegin, written) == written

Rollback(atBegin, written) == atBegin

\* Line 103: initDatabase() runs before the transaction begins.
StoreAtBegin(store) ==
    LET init == initDatabase(store.schema, store.tasks, store.settings)
    IN  [tasks |-> init.tasks, crops |-> store.crops,
         settings |-> init.settings, schema |-> init.schema]

\* Lines 114-160: the three DELETEs, then the INSERTs in the order crops,
\* tasks, settings, up to the first statement that raises: what the
\* transaction has written by then, and the table whose INSERT raised.
\* (Reading the crops of a data member that is absent raises a TypeError
\* at line 120, after the DELETEs.)
TransactionWrites(atBegin, data) ==
    IF ~data.present
    THEN [tasks |-> {}, crops |-> {}, settings |-> <<>>,
          schema |-> atBegin.schema, failed |-> "TypeError"]
    ELSE
    LET c == ImportCrops({}, data.crops, 1)
        t == ImportTasks({}, data.tasks, 1)
        s == ImportSettings(<<>>, data.settings)
    IN  [tasks    |-> IF c.ok THEN t.table ELSE {},
         crops    |-> c.table,
         settings |-> IF c.ok /\ t.ok THEN s.table ELSE <<>>,
         schema   |-> atBegin.schema,
         failed   |-> IF ~c.ok THEN "crops"
                      ELSE IF ~t.ok THEN "tasks"
                      ELSE IF ~s.ok THEN "settings"
                      ELSE ""]

StoreOf(written) ==
    [tasks |-> written.tasks, crops |-> written.crops,
     settings |-> written.settings, schema |-> written.schema]

\* Lines 163-167: COMMIT, then resetDatabaseConnections() runs
\* initDatabase again.
Commit(written) ==
    LET reset == initDatabase(written.schema, written.tasks, written.settings)
    IN  [tasks |-> reset.tasks, crops |-> written.crops,
         settings |-> reset.settings, schema |-> reset.schema]

\* Lines 108-173: the transaction.
Transaction(atBegin, data) ==
    LET written == TransactionWrites(atBegin, data)
    IN  IF written.failed # ""
        THEN [store |-> Rollback(atBegin, StoreOf(written)), threw |-> TRUE,
              error |-> "statement failed", failed |-> written.failed,
              deleted |-> TRUE]
        ELSE [store |-> Commit(written), threw |-> FALSE, error |-> "",
              failed |-> "", deleted |-> TRUE]

\* importDatabase(backupPath) on a store [tasks, crops, settings, schema]:
\* the store after the call and how the call ended.
importDatabase(store, fileExists, backup) ==
    IF ~fileExists
    THEN [store |-> store, threw |-> TRUE, error |-> "Backup file not found",
          failed |-> "", deleted |-> FALSE]
    ELSE IF InvalidBackup(backup)
    THEN [store |-> store, threw |-> TRUE, error |-> "Invalid backup file format",
          failed |-> "", deleted |-> FALSE]
    ELSE Transaction(StoreAtBegin(store), backup.data)

\* The backups read in the runs.  The tasks are Task objects as
\* exportDatabase writes them (getTasks), the settings a GardenSettings
\* object; date and year are given in every task.
BackupTask(id, title) ==
    [RowToTask(CreateTaskRow(CHOOSE t \in TaskInputs : t.title = "Peas", id))
        EXCEPT !.title = title]
BackupCrop(id, name) ==
    [id |-> id, name |-> name, weeksBeforeFrost |-> 4, daysToMaturity |-> 60]
BackupSettings(frostStartDate) ==
    [frostStartDate |-> frostStartDate, frostEndDate |-> "05-01",
     currentYear |-> 2025, notificationsEnabled |-> TRUE,
     saveToPhotoLibrary |-> TRUE]

GoodTasks    == <<BackupTask(4, "Peas"), BackupTask(5, "Beans")>>
GoodCrops    == <<BackupCrop(1, "Kale"), BackupCrop(2, "Leek")>>
GoodSettings == <<BackupSettings("10-01")>>

Backup(version, timestamp, data) ==
    [version |-> version, timestamp |-> timestamp, data |-> data]

Backups ==
    { Backup("1.0", "2025-03-10T09:00:00.000Z",
             BackupData(GoodTasks, GoodCrops, GoodSettings)),
      Backup("1.0", "2025-03-10T09:00:00.000Z", BackupData(<<>>, <<>>, <<>>)),
      \* a member is missing
      Backup(Undefined, "2025-03-10T09:00:00.000Z",
             BackupData(GoodTasks, GoodCrops, GoodSettings)),
      Backup("1.0", Undefined, BackupData(GoodTasks, GoodCrops, GoodSettings)),
      Backup("1.0", "2025-03-10T09:00:00.000Z", NoData),
      \* two crops with one id
      Backup("1.0", "2025-03-10T09:00:00.000Z",
             BackupData(GoodTasks, <<BackupCrop(1, "Kale"), BackupCrop(1, "Leek")>>,
                        GoodSettings)),
      \* the second task has no title
      Backup("1.0", "2025-03-10T09:00:00.000Z",
             BackupData(<<BackupTask(4, "Peas"), BackupTask(5, Undefined)>>,
                        GoodCrops, GoodSettings)),
      \* two tasks with one id
      Backup("1.0", "2025-03-10T09:00:00.000Z",
             BackupData(<<BackupTask(4, "Peas"), BackupTask(4, "Beans")>>,
                        GoodCrops, GoodSettings)),
      \* the settings object has no frostStartDate
      Backup("1.0", "2025-03-10T09:00:00.000Z",
             BackupData(GoodTasks, GoodCrops, <<BackupSettings(Undefined)>>)) }

\* The failing seed positions tried in the runs with a backup: none, and
\* the third record.
SeedFailures == {0, 3}

\* importDatabase(backupPath)
ImportDatabase(fileExists, backup) ==
    /\ last = Idle
    /\ LET res == importDatabase([tasks |-> tasks, crops |-> crops,
                                  settings |-> settings, schema |-> schema],
                                 fileExists, backup)
       IN  /\ tasks' = res.store.tasks
           /\ crops' = res.store.crops
           /\ settings' = res.store.settings
           /\ schema' = res.store.schema
           /\ last' = [op |-> "importDatabase", backup |-> backup,
                       threw |-> res.threw, error |-> res.error,
                       deleted |-> res.deleted, failed |-> res.failed,
                       tasksBefore |-> tasks, cropsBefore |-> crops,
                       settingsBefore |-> settings]
    /\ UNCHANGED <<uuids, device, screen>>

NextBackup ==
    \/ \E task \in TaskInputs, collide \in BOOLEAN : CreateTask(task, collide)
    \/ \E s \in SettingsInputs : SaveSettings(s)
    \/ \E failAt \in SeedFailures : InitCropDatabase(failAt)
    \/ \E fileExists \in BOOLEAN, backup \in Backups : ImportDatabase(fileExists, backup)
    \/ Return

SpecBackup == Init /\ [][NextBackup]_vars

\* ------------------------------------------------------------------------
\* database.ts: archiveNotesFromYear
\* ------------------------------------------------------------------------
\* The WHERE clause of the UPDATE (line 566).  "note" in double quotes
\* names no column of tasks, so SQLite reads it as the text 'note'.
\* (AnyTypeOfYear is the variant without the type condition.)
AnyTypeOfYear(row, year) == row.year = year /\ row.archived = 0

ArchivableNote(row, year) ==
    row.year = year /\ row.type = "note" /\ row.archived = 0

\* archiveNotesFromYear(year): the table after the UPDATE and
\* result.changes || 0.
archiveNotesFromYear(table, year) ==
    LET changed == {r \in table : ArchivableNote(r, year)}
    IN  [table  |-> {IF r \in changed THEN [r EXCEPT !.archived = 1] ELSE r :
                        r \in table},
         result |-> Cardinality(changed)]

\* The items created in the runs that archive: the four of TaskInputs and
\* two notes that are not archived, one of each year.
ArchiveRunTasks ==
    TaskInputs \cup
    { TaskInput("Rain", "note", Undefined, DateText(MDY, 2024, 6, 1), "wet",
                FALSE, <<>>, FALSE, 2024, FALSE, Undefined, FALSE),
      TaskInput("Hail", "note", Undefined, DateText(MDY, 2025, 6, 2), "",
                FALSE, <<>>, FALSE, 2025, FALSE, Undefined, FALSE) }

\* archiveNotesFromYear(year)
ArchiveNotesFromYear(year) ==
    /\ last = Idle
    /\ LET res == archiveNotesFromYear(tasks, year)
       IN  /\ tasks' = res.table
           /\ last' = [op |-> "archiveNotesFromYear", year |-> year,
                       before |-> tasks, result |-> res.result]
    /\ UNCHANGED <<uuids, device, screen, others>>

NextArchive ==
    \/ \E task \in ArchiveRunTasks, collide \in BOOLEAN : CreateTask(task, collide)
    \/ \E year \in Years : ArchiveNotesFromYear(year)
    \/ Return

SpecArchive == Init /\ [][NextArchive]_vars

\* ------------------------------------------------------------------------
\* database.ts: getTaskById; cropDatabase.ts: getCropById
\* ------------------------------------------------------------------------
\* getTaskById(id): the Task of the row, or the error thrown at line 371.
\* (getTaskByIdAbsent is the variant that returns no task and no error.)
getTaskByIdAbsent(table, id) ==
    IF id \in UsedIds(table)
    THEN [threw |-> FALSE, error |-> "", isNull |-> FALSE,
          value |-> RowToTask(CHOOSE r \in table : r.id = id)]
    ELSE [threw |-> FALSE, error |-> "", isNull |-> TRUE]

getTaskById(table, id) ==
    IF id \in UsedIds(table)
    THEN [threw |-> FALSE, error |-> "", isNull |-> FALSE,
          value |-> RowToTask(CHOOSE r \in table : r.id = id)]
    ELSE [threw |-> TRUE, error |-> "Task not found", isNull |-> FALSE]

\* getCropById(id): result || null.  The outcome is [isNull |-> TRUE] for
\* null, and carries the row otherwise.
getCropById(table, id) ==
    IF id \in UsedIds(table)
    THEN [threw |-> FALSE, error |-> "", isNull |-> FALSE,
          value |-> CHOOSE r \in table : r.id = id]
    ELSE [threw |-> FALSE, error |-> "", isNull |-> TRUE]

\* The crop ids looked up: the first and the last of the seed, and one
\* no seeded crop has.
CropLookupIds == {1, 35, 36}

\* getTaskById(id)
GetTaskById(id) ==
    /\ last = Idle
    /\ last' = [op |-> "getTaskById", id |-> id,
                outcome |-> getTaskById(tasks, id),
                tasksBefore |-> tasks, cropsBefore |-> crops]
    /\ UNCHANGED <<tasks, uuids, device, screen, others>>

\* getCropById(id)
GetCropById(id) ==
    /\ last = Idle
    /\ last' = [op |-> "getCropById", id |-> id,
                outcome |-> getCropById(crops, id),
                tasksBefore |-> tasks, cropsBefore |-> crops]
    /\ UNCHANGED <<tasks, uuids, device, screen, others>>

NextLookup ==
    \/ \E task \in TaskInputs, collide \in BOOLEAN : CreateTask(task, collide)
    \/ \E failAt \in SeedFailures : InitCropDatabase(failAt)
    \/ \E id \in Ids : GetTaskById(id)
    \/ \E id \in CropLookupIds : GetCropById(id)
    \/ Return

SpecLookup == Init /\ [][NextLookup]_vars

\* ------------------------------------------------------------------------
\* initDatabase and initSettingsTable when one statement fails for a
\* reason other than 'duplicate column name' (disk full, I/O error, locked
\* database)
\* ------------------------------------------------------------------------
\* The statement that fails: none, one of the two CREATE TABLEs, PRAGMA
\* table_info, or the ALTER TABLE that adds the named column.
CreateTasksStep    == "CREATE TABLE tasks"
CreateSettingsStep == "CREATE TABLE settings"
TableInfoStep      == "PRAGMA table_info(settings)"
NoFault            == "none"
SchemaFaults ==
    {NoFault, CreateTasksStep, CreateSettingsStep, TableInfoStep}
        \cup TasksAddedColumns \cup SettingsAddedColumns

\* try { ALTER TABLE ... ADD COLUMN } catch (error) { } with the failing
\* statement: the catch has no test on the error, so the failure is dropped
\* like a duplicate column is, and the column is not added.
TryAddColumnUnder(t, column, fault) ==
    IF fault = column THEN [t EXCEPT !.raised = FALSE]
    ELSE TryAddColumn(t, column)

\* initDatabase lines 77-124 with the failing statement.  A failing
\* CREATE TABLE is outside the inner try blocks and leaves the function.
InitTasksTableUnder(t, fault) ==
    IF fault = CreateTasksStep THEN [t EXCEPT !.raised = TRUE]
    ELSE
    LET t0 == CreateTableIfNotExists(t, TasksBaseColumns \cup {"type", "photos"})
        t1 == TryAddColumnUnder(t0, "photos", fault)
        t2 == TryAddColumnUnder(t1, "type", fault)
        t3 == TryAddColumnUnder(t2, "isTemplate", fault)
        t4 == TryAddColumnUnder(t3, "category", fault)
    IN  TryAddColumnUnder(t4, "archived", fault)

\* initSettingsTable with the failing statement: the catch at lines 51-53
\* covers PRAGMA table_info and the ALTER TABLE.
initSettingsTableUnder(t, fault) ==
    IF fault = CreateSettingsStep THEN [t EXCEPT !.raised = TRUE]
    ELSE
    LET t0 == CreateTableIfNotExists(t, SettingsBaseColumns \cup SettingsAddedColumns)
        hasPhotoLibraryColumn == "save_to_photo_library" \in t0.columns
    IN  IF fault = TableInfoStep THEN t0
        ELSE IF ~hasPhotoLibraryColumn
        THEN TryAddColumnUnder(t0, "save_to_photo_library", fault)
        ELSE t0

\* Whether the call runs the failing statement at all.
FaultOccurs(sch, fault) ==
    \/ fault \in {CreateTasksStep, CreateSettingsStep, TableInfoStep}
    \/ fault \in TasksAddedColumns
    \/ /\ fault \in SettingsAddedColumns
       /\ sch.settings # {}
       /\ fault \notin sch.settings

\* initDatabase() with the failing statement.
initDatabaseUnder(sch, taskRows, settingsRows, fault) ==
    LET t == InitTasksTableUnder([columns |-> sch.tasks, rows |-> taskRows,
                                  raised |-> FALSE], fault)
        st == IF t.raised
              THEN [columns |-> sch.settings, rows |-> {}, raised |-> FALSE]
              ELSE initSettingsTableUnder([columns |-> sch.settings, rows |-> {},
                                           raised |-> FALSE], fault)
        added == st.columns \ sch.settings
        srows == IF sch.settings # {} /\ "save_to_photo_library" \in added
                 THEN [i \in 1 .. Len(settingsRows) |->
                          WithColumn(settingsRows[i], "save_to_photo_library")]
                 ELSE settingsRows
    IN  [schema   |-> [tasks |-> t.columns, settings |-> st.columns],
         tasks    |-> t.rows,
         settings |-> srows,
         threw    |-> t.raised \/ st.raised]

\* initDatabase() while the statement fault fails
InitDatabaseUnder(fault) ==
    /\ last = Idle
    /\ LET res == initDatabaseUnder(schema, tasks, settings, fault)
       IN  /\ schema' = res.schema
           /\ tasks' = res.tasks
           /\ settings' = res.settings
           /\ last' = [op |-> "initDatabase", threw |-> res.threw,
                       fault |-> fault,
                       faultOccurred |-> FaultOccurs(schema, fault),
                       schemaBefore |-> schema, tasksBefore |-> tasks,
                       settingsBefore |-> settings]
    /\ UNCHANGED <<uuids, device, screen, crops>>

NextSchemaFaults ==
    \/ \E fault \in SchemaFaults : InitDatabaseUnder(fault)
    \/ Return

SpecSchemaFaults == InitLegacy /\ [][NextSchemaFaults]_vars

\* ------------------------------------------------------------------------
\* The repository operations while one call to the store fails (I/O
\* error, locked or closed database)
\* ------------------------------------------------------------------------
\* The call that fails: none, the operation's own statement (its SELECT,
\* INSERT or UPDATE), or the PRAGMA table_info that probes for a column.
NoStoreFault          == [step |-> "none", column |-> ""]
StatementFault        == [step |-> "statement", column |-> ""]
ProbeFault(column)    == [step |-> "table_info", column |-> column]
ProbedColumns         == {"isTemplate", "category", "archived"}
StoreFaults ==
    {NoStoreFault, StatementFault} \cup {ProbeFault(c) : c \in ProbedColumns}

\* columnExists (lines 32-42) with the failing call: the catch at lines
\* 38-41 logs the error and returns false.
columnExistsUnder(sch, tableName, columnName, fault) ==
    IF fault = ProbeFault(columnName) THEN FALSE
    ELSE columnExists(sch, tableName, columnName)

\* createTask (lines 154-229) with the failing call: a column whose probe
\* says false is left out of the INSERT and takes its default.
CreateTaskRowUnder(sch, task, uuid, fault) ==
    LET row == CreateTaskRow(task, uuid)
        hasTemplate == columnExistsUnder(sch, "tasks", "isTemplate", fault)
        hasCategory == columnExistsUnder(sch, "tasks", "category", fault)
        hasArchived == columnExistsUnder(sch, "tasks", "archived", fault)
    IN  [row EXCEPT
            !.isTemplate = IF hasTemplate THEN @ ELSE ColumnDefault("isTemplate"),
            !.category   = IF hasCategory THEN @ ELSE ColumnDefault("category"),
            !.archived   = IF hasArchived THEN @ ELSE ColumnDefault("archived")]

createTaskUnder(sch, table, issued, task, fault) ==
    IF fault = StatementFault
    THEN [table |-> table, threw |-> TRUE]
    ELSE LET ins == InsertRow(table,
                        CreateTaskRowUnder(sch, task,
                            generateUUID(table, issued, FALSE), fault))
         IN  [table |-> ins.table, threw |-> ~ins.ok]

\* getTasks(year) (lines 232-261) with the failing call.
getTasksUnder(sch, table, year, fault) ==
    IF fault = StatementFault
    THEN [threw |-> TRUE, result |-> {}]
    ELSE LET hasArchived == columnExistsUnder(sch, "tasks", "archived", fault)
         IN  [threw  |-> FALSE,
              result |-> {RowToTask(r) :
                             r \in {x \in table :
                                       /\ x.year = year
                                       /\ (hasArchived => NotArchived(x))}}]

\* saveSettings (settings.ts:103-119) with the failing call.
saveSettingsUnder(table, s, fault) ==
    IF fault = StatementFault
    THEN [table |-> table, threw |-> TRUE]
    ELSE [table |-> saveSettings(table, s), threw |-> FALSE]

\* getCropById (cropDatabase.ts:131-143) with the failing call.
getCropByIdUnder(table, id, fault) ==
    IF fault = StatementFault
    THEN [threw |-> TRUE, error |-> "store", isNull |-> FALSE]
    ELSE getCropById(table, id)

\* createTask(task) while the call fault fails
CreateTaskUnder(task, fault) ==
    /\ last = Idle
    /\ uuids < MaxCreated
    /\ fault \in {NoStoreFault, StatementFault}
                    \cup {ProbeFault(c) : c \in ProbedColumns}
    /\ LET res == createTaskUnder(schema, tasks, uuids, task, fault)
       IN  /\ tasks' = res.table
           /\ uuids' = IF res.threw THEN uuids ELSE uuids + 1
           /\ last' = [op |-> "createTask", fault |-> fault, task |-> task,
                       threw |-> res.threw, before |-> tasks]
    /\ UNCHANGED <<device, screen, others>>

\* getTasks(year) while the call fault fails
GetTasksUnder(year, fault) ==
    /\ last = Idle
    /\ fault \in {NoStoreFault, StatementFault, ProbeFault("archived")}
    /\ LET res == getTasksUnder(schema, tasks, year, fault)
       IN  last' = [op |-> "getTasks", fault |-> fault, year |-> year,
                    threw |-> res.threw, result |-> res.result]
    /\ UNCHANGED <<tasks, uuids, device, screen, others>>

\* saveSettings(settings) while the call fault fails
SaveSettingsUnder(s, fault) ==
    /\ last = Idle
    /\ Len(settings) < MaxSettings
    /\ fault \in {NoStoreFault, StatementFault}
    /\ LET res == saveSettingsUnder(settings, s, fault)
       IN  /\ settings' = res.table
           /\ last' = [op |-> "saveSettings", fault |-> fault,
                       threw |-> res.threw]
    /\ UNCHANGED <<tasks, uuids, device, screen, crops, schema>>

\* getCropById(id) while the call fault fails
GetCropByIdUnder(id, fault) ==
    /\ last = Idle
    /\ fault \in {NoStoreFault, StatementFault}
    /\ last' = [op |-> "getCropById", fault |-> fault,
                threw |-> getCropByIdUnder(crops, id, fault).threw]
    /\ UNCHANGED <<tasks, uuids, device, screen, others>>

NextStoreFaults ==
    \/ \E task \in ArchiveRunTasks, fault \in StoreFaults : CreateTaskUnder(task, fault)
    \/ \E year \in Years, fault \in StoreFaults : GetTasksUnder(year, fault)
    \/ \E s \in SettingsInputs, fault \in StoreFaults : SaveSettingsUnder(s, fault)
    \/ \E id \in CropLookupIds, fault \in StoreFaults : GetCropByIdUnder(id, fault)
    \/ Return

SpecStoreFaults == Init /\ [][NextStoreFaults]_vars

\* ------------------------------------------------------------------------
\* databaseBackup.ts: importDatabase when resetDatabaseConnections fails
\* ------------------------------------------------------------------------
\* Line 167 is inside the try of the transaction: when initDatabase raises
\* there (after COMMIT), the catch at 168-173 runs ROLLBACK with no
\* transaction open, which raises in its turn, and the call ends with an
\* error while the tables hold what was committed.
importDatabaseUnder(store, fileExists, backup, resetFails) ==
    LET res == importDatabase(store, fileExists, backup)
    IN  IF res.threw \/ ~resetFails
        THEN [store |-> res.store, threw |-> res.threw, error |-> res.error,
              committed |-> ~res.threw]
        ELSE [store |-> StoreOf(TransactionWrites(StoreAtBegin(store), backup.data)),
              threw |-> TRUE,
              error |-> "cannot rollback - no transaction is active",
              committed |-> TRUE]

\* importDatabase(backupPath), with or without a failing reset
ImportDatabaseUnder(fileExists, backup, resetFails) ==
    /\ last = Idle
    /\ LET res == importDatabaseUnder([tasks |-> tasks, crops |-> crops,
                                       settings |-> settings, schema |-> schema],
                                      fileExists, backup, resetFails)
       IN  /\ tasks' = res.store.tasks
           /\ crops' = res.store.crops
           /\ settings' = res.store.settings
           /\ schema' = res.store.schema
           /\ last' = [op |-> "importDatabase", backup |-> backup,
                       threw |-> res.threw, error |-> res.error,
                       committed |-> res.committed, resetFails |-> resetFails,
                       tasksBefore |-> tasks, cropsBefore |-> crops,
                       settingsBefore |-> settings]
    /\ UNCHANGED <<uuids, device, screen>>

NextBackupFaults ==
    \/ \E task \in TaskInputs : CreateTask(task, FALSE)
    \/ \E s \in SettingsInputs : SaveSettings(s)
    \/ \E failAt \in SeedFailures : InitCropDatabase(failAt)
    \/ \E fileExists \in BOOLEAN, backup \in Backups, resetFails \in BOOLEAN :
           ImportDatabaseUnder(fileExists, backup, resetFails)
    \/ Return

SpecBackupFaults == Init /\ [][NextBackupFaults]_vars

\* ------------------------------------------------------------------------
\* databaseBackup.ts: exportDatabase, and the import of the file it wrote
\* ------------------------------------------------------------------------
\* getTasks(currentYear) as the list the export writes (lines 35-36): the
\* rows of the year of the clock that pass buildTaskQuery, by date.
ExportedTasks(sch, table) ==
    LET rows == {x \in table : x.year = getFullYear(Now) /\ buildTaskQuery(sch, x)}
        ordered == CHOOSE f \in OrderedByDate(rows) : TRUE
    IN  [i \in 1 .. Cardinality(rows) |-> RowToTask(ordered[i])]

\* exportDatabase(): the store after the call (getSettings saves the
\* defaults into an empty settings table) and the backup object written
\* to the file.  JSON.stringify leaves out the members that are
\* undefined, and reading them back from the parsed file gives undefined.
exportDatabase(store) ==
    LET got == getSettings(store.settings)
    IN  [store  |-> [store EXCEPT !.settings = got.table],
         backup |-> Backup("1.0", "2025-03-10T09:00:00.000Z",
                        BackupData(ExportedTasks(store.schema, store.tasks),
                                   getCrops(store.crops),
                                   <<got.result>>))]

\* exportDatabase()
ExportDatabase ==
    /\ last = Idle
    /\ LET res == exportDatabase([tasks |-> tasks, crops |-> crops,
                                  settings |-> settings, schema |-> schema])
       IN  /\ settings' = res.store.settings
           /\ last' = [op |-> "exportDatabase", backup |-> res.backup,
                       tasksBefore |-> tasks, cropsBefore |-> crops,
                       settingsBefore |-> settings]
    /\ UNCHANGED <<tasks, uuids, device, screen, crops, schema>>

\* importDatabase(backupPath) of the file the export has just written
\* (BackupScreen: the user picks the shared file and confirms)
ImportExported ==
    /\ last.op = "exportDatabase"
    /\ LET res == importDatabase([tasks |-> tasks, crops |-> crops,
                                  settings |-> settings, schema |-> schema],
                                 TRUE, last.backup)
       IN  /\ tasks' = res.store.tasks
           /\ crops' = res.store.crops
           /\ settings' = res.store.settings
           /\ schema' = res.store.schema
           /\ last' = [op |-> "importExported", threw |-> res.threw,
                       tasksBefore |-> last.tasksBefore,
                       cropsBefore |-> last.cropsBefore,
                       settingsBefore |-> last.settingsBefore]
    /\ UNCHANGED <<uuids, device, screen>>

NextRoundTrip ==
    \/ \E task \in TaskInputs : CreateTask(task, FALSE)
    \/ \E s \in SettingsInputs : SaveSettings(s)
    \/ \E failAt \in SeedFailures : InitCropDatabase(failAt)
    \/ ExportDatabase
    \/ ImportExported
    \/ Return

SpecRoundTrip == Init /\ [][NextRoundTrip]_vars

\* ------------------------------------------------------------------------
\* TaskDetailsScreen: handleSave, with succession planting
\* ------------------------------------------------------------------------
\* date-fns parse(text, 'MM/dd/yyyy', new Date()): local midnight of the
\* day written; format(date, 'MM/dd/yyyy'): the local day of the Date.
parse(text) == DateObject(text.y, text.m, text.d, 0)
format(date) == DateText(MDY, date.y, date.m, date.d)

\* date-fns addWeeks(date, amount) is addDays(date, amount * 7), which
\* calls setDate(getDate() + days) on a copy.
addDays(date, amount) == setDate(date, getDate(date) + amount)
addWeeks(date, amount) == addDays(date, amount * 7)

\* `${title} - #${n}` for the titles typed in the runs.
SuccessionTitle(title, n) ==
    CASE title = "Peas" /\ n = 2 -> "Peas - #2"
      [] title = "Peas" /\ n = 3 -> "Peas - #3"
      [] title = "Peas" /\ n = 4 -> "Peas - #4"
      [] title = "Kale" /\ n = 2 -> "Kale - #2"
      [] title = "Kale" /\ n = 3 -> "Kale - #3"
      [] title = "Kale" /\ n = 4 -> "Kale - #4"

\* The values of i the loop at line 383 runs with: i = 1; i < count.
\* (SuccessionIndicesInclusive is the variant with i <= count.)
SuccessionIndicesInclusive(count) == 1 .. count

SuccessionIndices(count) == 1 .. (count - 1)

\* Lines 368-371: the screen's task with the crop picked; a new task has
\* no id, completed, isTemplate, category or archived member.
TaskToSave(form) ==
    TaskInput(form.title, "task", form.cropId, form.date, form.notes,
              TRUE, <<>>, FALSE, form.year, FALSE, Undefined, FALSE)

\* Lines 384-390: the i-th successor.
SuccessionTask(taskToSave, baseDate, interval, i) ==
    LET nextDate == addWeeks(baseDate, i * interval)
    IN  [taskToSave EXCEPT !.title = SuccessionTitle(taskToSave.title, i + 1),
                           !.date  = format(nextDate),
                           !.year  = getFullYear(nextDate)]

\* The CreateTaskInputs handleSave passes to createTask, in call order.
TasksToCreate(form) ==
    LET taskToSave == TaskToSave(form)
        interval == parseInt(form.successionInterval)
        count == parseInt(form.successionCount)
        baseDate == parse(form.date)
        successors == IF form.enableSuccession THEN SuccessionIndices(count) ELSE {}
    IN  [k \in 1 .. (1 + Cardinality(successors)) |->
            IF k = 1 THEN taskToSave
            ELSE SuccessionTask(taskToSave, baseDate, interval, k - 1)]

\* The createTask calls one after the other; each draws a new id.
RECURSIVE CreateAll(_, _, _, _)
CreateAll(table, issued, inputs, k) ==
    IF k > Len(inputs) THEN table
    ELSE LET ins == InsertRow(table,
                        CreateTaskRow(inputs[k], generateUUID(table, issued, FALSE)))
         IN  CreateAll(ins.table, issued + 1, inputs, k + 1)

\* handleSave(): the table after it, the number of createTask calls, and
\* whether an alert was shown instead.  (The screen's date is never empty:
\* it starts as today's and only the date picker and the crop picker
\* replace it, so of line 362 only the title test can succeed.)
handleSave(table, issued, form) ==
    IF form.title = ""
    THEN [table |-> table, created |-> 0, alert |-> "Please fill in all required fields"]
    ELSE IF form.isNewTask
    THEN LET inputs == TasksToCreate(form)
         IN  [table |-> CreateAll(table, issued, inputs, 1),
              created |-> Len(inputs), alert |-> ""]
    ELSE LET out == updateTaskOutcome(table, form.taskId,
                        [title |-> form.title, date |-> form.date,
                         notes |-> form.notes, year |-> form.year,
                         cropId |-> form.cropId])
         IN  [table |-> out.table, created |-> 0,
              alert |-> IF out.threw THEN "Failed to save task" ELSE ""]

\* What is typed into the screen in the runs.  The date and the year are
\* set together by the date picker (lines 408-413); the two succession
\* fields start as '2' and '4' (lines 315-316).
SaveDates == {DateText(MDY, 2024, 12, 20), DateText(MDY, 2024, 2, 15)}
SuccessionIntervals == {CsvNumber(<<2>>, ""), CsvNumber(<<8>>, "")}
SuccessionCounts == {CsvNumber(<<1>>, ""), CsvNumber(<<2>>, ""), CsvNumber(<<3>>, "")}
SaveForm(isNewTask, title, date, enableSuccession, successionInterval, successionCount) ==
    [isNewTask |-> isNewTask, taskId |-> 1, title |-> title, date |-> date,
     year |-> YearWrittenIn(date), notes |-> "", cropId |-> Undefined,
     enableSuccession |-> enableSuccession,
     successionInterval |-> successionInterval,
     successionCount |-> successionCount]
SaveForms ==
    {SaveForm(TRUE, "Peas", date, TRUE, interval, count) :
        date \in SaveDates, interval \in SuccessionIntervals,
        count \in SuccessionCounts}
    \cup {SaveForm(isNewTask, title, date, FALSE,
                   CsvNumber(<<2>>, ""), CsvNumber(<<4>>, "")) :
            isNewTask \in BOOLEAN, title \in {"Peas", "Kale", ""},
            date \in SaveDates}

\* The Save button of the task screen
HandleSave(form) ==
    /\ last = Idle
    /\ uuids < MaxCreated
    /\ form.isNewTask \/ form.taskId \in UsedIds(tasks)
    /\ LET res == handleSave(tasks, uuids, form)
       IN  /\ uuids + res.created <= MaxTasks
           /\ tasks' = res.table
           /\ uuids' = uuids + res.created
           /\ last' = [op |-> "handleSave", form |-> form, before |-> tasks,
                       issuedBefore |-> uuids, created |-> res.created,
                       alert |-> res.alert]
    /\ UNCHANGED <<device, screen, others>>

NextSuccession ==
    \/ \E form \in SaveForms : HandleSave(form)
    \/ Return

SpecSuccession == Init /\ [][NextSuccession]_vars

\* ------------------------------------------------------------------------
\* MainScreen: loadSettings and loadTasks, on focus and on pull-to-refresh
\* ------------------------------------------------------------------------
\* loadSettings (lines 44-52) followed by loadTasks (lines 35-42), as the
\* closures of one render run them: getSettings() is read, setCurrentYear
\* queues the year for the next render, and loadTasks calls
\* getTasks(currentYear) with the currentYear of the render the closures
\* belong to, not with the year just read.
loadSettings(sch, table, settingsTable, renderYear) ==
    LET got == getSettings(settingsTable)
    IN  [settings |-> got.table,
         screen   |-> [currentYear |-> got.result.currentYear,
                       tasks |-> getTasksOfYear(sch, table, renderYear)]]

\* useFocusEffect(React.useCallback(..., [])) (lines 55-67): the callback
\* is the one of the first render for as long as the screen is mounted, so
\* its loadSettings and loadTasks see the first render's currentYear.
FocusLoad ==
    /\ last = Idle
    /\ LET res == loadSettings(schema, tasks, settings,
                               MainScreenFirstRender.currentYear)
       IN  /\ settings' = res.settings
           /\ screen' = res.screen
           /\ last' = [op |-> "focusLoad", yearBefore |-> screen.currentYear]
    /\ UNCHANGED <<tasks, uuids, device, crops, schema>>

\* handleRefresh (lines 69-73) is created anew by every render: its
\* closures see the currentYear of the latest render.
HandleRefresh ==
    /\ last = Idle
    /\ LET res == loadSettings(schema, tasks, settings, screen.currentYear)
       IN  /\ settings' = res.settings
           /\ screen' = res.screen
           /\ last' = [op |-> "handleRefresh", yearBefore |-> screen.currentYear]
    /\ UNCHANGED <<tasks, uuids, device, crops, schema>>

NextMainScreen ==
    \/ \E task \in TaskInputs : CreateTask(task, FALSE)
    \/ \E s \in SettingsInputs : SaveSettings(s)
    \/ FocusLoad
    \/ HandleRefresh
    \/ Return

SpecMainScreen == Init /\ [][NextMainScreen]_vars

\* ========================================================================
\* Properties
\* ========================================================================
\* The number of days from 1970-01-01 to the calendar date (y, m, d), by the
\* closed formula for the proleptic Gregorian calendar; used to state
\* distances between dates without stepping through months.
DayNumber(y, m, d) ==
    LET yy  == IF m <= 2 THEN y - 1 ELSE y
        era == yy \div 400
        yoe == yy - era * 400
        mp  == (m + 9) % 12
        doy == (153 * mp + 2) \div 5 + d - 1
        doe == yoe * 365 + yoe \div 4 - yoe \div 100 + doy
    IN  era * 146097 + doe - 719468

IsCalendarDate(date) ==
    /\ date.valid
    /\ date.m \in 1 .. 12
    /\ date.d \in 1 .. DaysInMonth(date.y, date.m)

\* C1: calculatePlantingDate(C, F) returns the calendar date exactly
\* 7 * C.weeksBeforeFrost days before F, across month and year boundaries
\* too, and F itself is the same after the call as before it.
C1_PlantingDateIsFrostMinusWeeks ==
    last.op = "calculatePlantingDate" =>
        /\ IsCalendarDate(last.plantingDate)
        /\ DayNumber(last.plantingDate.y, last.plantingDate.m, last.plantingDate.d)
             = DayNumber(last.frostBefore.y, last.frostBefore.m, last.frostBefore.d)
                 - 7 * last.crop.weeksBeforeFrost
        /\ last.plantingDate.h = last.frostBefore.h
        /\ last.frostAfter = last.frostBefore

\* Jan 10 2025 minus 8 weeks: Nov 15 2024.
C1_Witness ==
    /\ last.op = "calculatePlantingDate"
    /\ last.crop.weeksBeforeFrost = 8
    /\ last.frostBefore = DateObject(2025, 1, 10, 0)
    /\ last.frostAfter = DateObject(2025, 1, 10, 0)
    /\ last.plantingDate = DateObject(2024, 11, 15, 0)

\* The row of a table with a given id.
RowById(table, id) == CHOOSE r \in table : r.id = id

\* The (source row, inserted row) pairs of the copySelectedTasks call that
\* has just returned.
CopiedPairs ==
    {[src |-> RowById(last.before, last.inserted[k].source),
      new |-> RowById(tasks, last.inserted[k].id)] :
        k \in 1 .. Len(last.inserted)}

\* C2: after copySelectedTasks(fromYear = Y, toYear = Y + N) the date on
\* each copied row has the source date's month and day and the source
\* date's year plus N; a Feb 29 source landing in a year without one has
\* the fallback date (Mar 1, or Feb 28) of that year.
C2_CopiedDateKeepsMonthDayShiftsYear ==
    last.op = "copySelectedTasks" =>
        \A p \in CopiedPairs :
            LET N == last.options.toYear - last.options.fromYear
                s == p.src.date
                c == p.new.date
            IN  /\ c.y = s.y + N
                /\ IF s.m = 2 /\ s.d = 29 /\ ~IsLeapYear(s.y + N)
                   THEN <<c.m, c.d>> \in {<<3, 1>>, <<2, 28>>}
                   ELSE c.m = s.m /\ c.d = s.d

\* C3: every task row's date is MM/DD/YYYY text.
C3_EveryDateIsMMDDYYYY ==
    \A r \in tasks : r.date.fmt = MDY

\* C4: every task row's year field is the calendar year written in its
\* date field.
C4_YearFieldIsYearOfDate ==
    \A r \in tasks : r.year = YearWrittenIn(r.date)

\* C5: deleteTask on a stored task with N photo filenames issues N
\* deletePhoto calls and removes the row, also when a release fails.
C5_DeleteReleasesPhotosAndRemovesRow ==
    (last.op = "deleteTask" /\ last.id \in UsedIds(last.before)) =>
        /\ last.calls = Len(RowToTask(RowById(last.before, last.id)).photos)
        /\ last.id \notin UsedIds(tasks)

\* C6: a row inserted by copySelectedTasks is not completed when
\* resetCompletion is true or left out, and has its source row's completed
\* value when resetCompletion is false.
C6_CompletionResetUnlessKept ==
    last.op = "copySelectedTasks" =>
        \A p \in CopiedPairs :
            /\ last.options.resetCompletion \in {OptTrue, Undefined} =>
                   RowToTask(p.new).completed = FALSE
            /\ last.options.resetCompletion = OptFalse =>
                   /\ p.new.completed = p.src.completed
                   /\ RowToTask(p.new).completed = RowToTask(p.src).completed

\* A completed source row copied with resetCompletion left out.
C6_Witness ==
    /\ last.op = "copySelectedTasks"
    /\ last.options.resetCompletion = Undefined
    /\ \E p \in CopiedPairs : p.src.completed = 1 /\ p.new.completed = 0

C8_Selected(r) ==
    /\ r.year = last.options.fromYear
    /\ (last.options.categories = {} \/ r.category \in last.options.categories)
    /\ (last.options.includeTemplates # OptFalse \/ r.isTemplate = 0)
    /\ (last.options.includeNotes # OptFalse \/ r.type = "task")

C8_CopiedSetIsTheConjunction ==
    last.op = "copySelectedTasks" =>
        LET copied == {p.src : p \in CopiedPairs}
            wanted == {r \in last.before : C8_Selected(r)}
        IN  /\ copied \subseteq wanted
            /\ ~last.threw => copied = wanted /\ last.count = Cardinality(wanted)

\* An archived row copied while a template of the same year was left out.
C8_Witness ==
    /\ last.op = "copySelectedTasks"
    /\ ~last.threw
    /\ last.count = 1
    /\ last.options.includeTemplates = OptFalse
    /\ \E p \in CopiedPairs : p.src.archived = 1
    /\ \E r \in last.before :
           /\ r.year = last.options.fromYear
           /\ r.isTemplate = 1
           /\ r \notin {p.src : p \in CopiedPairs}

\* C9: the preview of the New Year Setup screen is the set of rows
\* copySelectedTasks copies when performCopy runs it with the same options
\* on the same store, and computing the preview leaves the store as it was.
C9_PreviewIsWhatCopyCopies ==
    last.op = "generatePreview" =>
        /\ tasks = last.before
        /\ \A currentYear \in Years :
               {t.id : t \in last.previewTasks} =
               {r.id : r \in SelectSourceTasks(last.before,
                                 PerformCopyOptions(last.copyOptions, currentYear))}

\* C10: each row copySelectedTasks inserts has an id that is not its
\* source's and that no row of the store had; the rows that were in the
\* store before the call are all there unchanged after it, and the only
\* other rows are the inserted ones.
C10_CopiesAreNewRowsOthersUnchanged ==
    last.op = "copySelectedTasks" =>
        /\ \A k \in 1 .. Len(last.inserted) :
               /\ last.inserted[k].id # last.inserted[k].source
               /\ last.inserted[k].id \notin UsedIds(last.before)
               /\ \A j \in 1 .. Len(last.inserted) :
                      j # k => last.inserted[j].id # last.inserted[k].id
        /\ last.before \subseteq tasks
        /\ UsedIds(tasks) \ UsedIds(last.before) =
               {last.inserted[k].id : k \in 1 .. Len(last.inserted)}
        /\ Cardinality(tasks) = Cardinality(last.before) + Len(last.inserted)

\* Two rows copied into a store that held two.
C10_Witness ==
    /\ last.op = "copySelectedTasks"
    /\ Cardinality(last.before) = 2
    /\ Len(last.inserted) = 2
    /\ Cardinality(tasks) = 4

\* C11: a copySelectedTasks call that did not raise returns the number of
\* rows it inserted, which is the number of matching source rows; with no
\* matching row it returns 0, raises nothing and leaves the store as it was.
C11_ReturnsNumberOfRowsCopied ==
    (last.op = "copySelectedTasks" /\ ~last.threw) =>
        LET matching == {r \in last.before : C8_Selected(r)}
        IN  /\ last.count = Cardinality(tasks) - Cardinality(last.before)
            /\ last.count = Cardinality(matching)
            /\ matching = {} => last.count = 0 /\ tasks = last.before

\* A copy from a year none of the two stored rows matches the options of.
C11_Witness ==
    /\ last.op = "copySelectedTasks"
    /\ ~last.threw
    /\ last.count = 0
    /\ Cardinality(last.before) = 2
    /\ tasks = last.before

\* C12: getSettings returns the five values of the most recent saveSettings:
\* right after a save a get returns exactly what was saved and writes
\* nothing, and a get on a table with rows returns what was saved into the
\* newest row, whatever was saved before it.
C12_GetReturnsMostRecentSave ==
    /\ last.op = "saveSettings" =>
           /\ getSettings(settings).result = last.settings
           /\ getSettings(settings).table = settings
    /\ (last.op = "getSettings" /\ last.before # <<>>) =>
           /\ \A s \in SettingsInputs \cup {defaultSettings} :
                  SettingsRow(s) = last.before[Len(last.before)] => last.result = s
           /\ \E s \in SettingsInputs \cup {defaultSettings} :
                  SettingsRow(s) = last.before[Len(last.before)]

\* Two saves of different values, then a get that returns the second's.
C12_Witness ==
    /\ last.op = "getSettings"
    /\ Len(last.before) = 2
    /\ last.before[1] # last.before[2]
    /\ last.before[1].current_year = 2026
    /\ last.result = [frostStartDate |-> "09-20", frostEndDate |-> "04-15",
                      currentYear |-> 2024, notificationsEnabled |-> FALSE,
                      saveToPhotoLibrary |-> TRUE]

\* C13: getSettings on an empty settings table stores one row holding the
\* defaults ('10-03', '05-11', the current year, notifications on, photo
\* library off) and returns them; a get after it returns the same values;
\* getSettings on a table with rows writes nothing.
C13_DefaultsSavedOnce ==
    last.op = "getSettings" =>
        IF last.before = <<>>
        THEN /\ last.result = [frostStartDate |-> "10-03", frostEndDate |-> "05-11",
                               currentYear |-> Now.y, notificationsEnabled |-> TRUE,
                               saveToPhotoLibrary |-> FALSE]
             /\ Len(settings) = 1
             /\ RowToSettings(settings[1]) = last.result
             /\ getSettings(settings).result = last.result
             /\ getSettings(settings).table = settings
        ELSE settings = last.before

\* The first get of an installation.
C13_Witness ==
    /\ last.op = "getSettings"
    /\ last.before = <<>>
    /\ Len(settings) = 1
    /\ last.result.frostEndDate = "05-11"

\* C14: getAvailableYears returns a list without duplicates, strictly
\* descending, whose elements are exactly the year values of the task rows
\* in the store, archived or not, of any type.
C14_YearsDistinctDescendingExact ==
    last.op = "getAvailableYears" =>
        /\ \A i, j \in 1 .. Len(last.result) :
               i < j => last.result[i] > last.result[j]
        /\ {last.result[i] : i \in 1 .. Len(last.result)} = {r.year : r \in tasks}

\* Two years listed, one of them held only by an archived note.
C14_Witness ==
    /\ last.op = "getAvailableYears"
    /\ last.result = <<2025, 2024>>
    /\ \A r \in tasks : r.year = 2024 => (r.archived = 1 /\ r.type = "note")

C20_UpdateChangesOnlyGivenFields ==
    (last.op = "updateTask" /\ "before" \in DOMAIN last
                            /\ last.id \in UsedIds(last.before)) =>
        /\ ~last.threw
        /\ last.id \in UsedIds(tasks)
        /\ last.result = RowToTask(RowById(tasks, last.id))
        /\ \A k \in DOMAIN RowById(tasks, last.id) :
               k \notin DOMAIN last.updates =>
                   RowById(tasks, last.id)[k] = RowById(last.before, last.id)[k]
        /\ {r \in tasks : r.id # last.id} = {r \in last.before : r.id # last.id}

\* The list getCrops returns after a seeding: n crops with n different ids,
\* in ascending order of name, 'Ageratum' first.
SeededCatalogHas(n) ==
    (last.op = "initCropDatabase" /\ last.before = {} /\ ~last.threw) =>
        LET list == getCrops(crops)
        IN  /\ Len(PapaParse(DEFAULT_CROPS_CSV)) = n
            /\ Len(list) = n
            /\ Cardinality({list[i].id : i \in 1 .. Len(list)}) = n
            /\ \A i \in 1 .. Len(list) - 1 : NameLess(list[i].name, list[i + 1].name)
            /\ list[1].name = "Ageratum"

KeepsFields(old, new) == \A k \in DOMAIN old : k \in DOMAIN new /\ new[k] = old[k]

\* C16: initDatabase, run any number of times on a new store or on one
\* whose tables have any subset of the added columns, raises nothing, ends
\* with every column of both tables present, keeps every row with every
\* value it had, and running it again changes nothing.
C16_InitDatabaseIdempotentKeepsRows ==
    last.op = "initDatabase" =>
        /\ ~last.threw
        /\ schema = FullSchema
        /\ Cardinality(tasks) = Cardinality(last.tasksBefore)
        /\ \A old \in last.tasksBefore :
               \E new \in tasks : new.id = old.id /\ KeepsFields(old, new)
        /\ Len(settings) = Len(last.settingsBefore)
        /\ \A i \in 1 .. Len(settings) : KeepsFields(last.settingsBefore[i], settings[i])
        /\ LET again == initDatabase(schema, tasks, settings)
           IN  /\ ~again.threw
               /\ again.schema = schema
               /\ again.tasks = tasks
               /\ again.settings = settings

\* A run on a store that had the archived column but not the category
\* column, nor save_to_photo_library, with rows in both tables.
C16_Witness ==
    /\ last.op = "initDatabase"
    /\ "archived" \in last.schemaBefore.tasks
    /\ "category" \notin last.schemaBefore.tasks
    /\ last.schemaBefore.settings = SettingsBaseColumns
    /\ Cardinality(last.tasksBefore) = 2
    /\ Len(last.settingsBefore) = 1
    /\ \A r \in tasks : r.category = Null
    /\ settings[1].save_to_photo_library = 0

\* C17: importDatabase on a backup that lacks version, timestamp or data
\* raises 'Invalid backup file format' and leaves the tasks, crops and
\* settings tables as they were before the call.
C17_InvalidBackupRejectedStoreUntouched ==
    (/\ last.op = "importDatabase"
     /\ last.error # "Backup file not found"
     /\ \/ last.backup.version = Undefined
        \/ last.backup.timestamp = Undefined
        \/ last.backup.data = NoData)
    => /\ last.threw
       /\ last.error = "Invalid backup file format"
       /\ tasks = last.tasksBefore
       /\ crops = last.cropsBefore
       /\ settings = last.settingsBefore

\* A backup with no timestamp, whose data would have imported, was
\* refused on a store that has rows in the three tables.
C17_Witness ==
    /\ last.op = "importDatabase"
    /\ last.backup.timestamp = Undefined
    /\ last.backup.version # Undefined
    /\ last.backup.data # NoData
    /\ last.error = "Invalid backup file format"
    /\ tasks # {}
    /\ crops # {}
    /\ settings # <<>>

\* C18: when a row insert fails during importDatabase, after the rows of
\* the three tables were deleted inside the transaction, the transaction
\* is rolled back: tasks, crops and settings are what they were before
\* the import started.
C18_FailedImportRolledBack ==
    (last.op = "importDatabase" /\ last.deleted /\ last.threw)
    => /\ tasks = last.tasksBefore
       /\ crops = last.cropsBefore
       /\ settings = last.settingsBefore

\* The insert of the second task failed, after both crops and the first
\* task had been inserted, on a store with rows in the three tables.
C18_Witness ==
    /\ last.op = "importDatabase"
    /\ last.deleted
    /\ last.threw
    /\ last.failed = "tasks"
    /\ Len(last.backup.data.crops) = 2
    /\ last.tasksBefore # {}
    /\ last.cropsBefore # {}
    /\ last.settingsBefore # <<>>
    /\ tasks = last.tasksBefore

\* C21: archiveNotesFromYear(year) sets archived on exactly the rows of
\* that year that are notes and not archived, returns how many rows it
\* changed, leaves every other row as it was and deletes no row.
C21_ArchivesExactlyTheYearsOpenNotes ==
    last.op = "archiveNotesFromYear" =>
        /\ UsedIds(tasks) = UsedIds(last.before)
        /\ Cardinality(tasks) = Cardinality(last.before)
        /\ \A old \in last.before :
               LET new == RowById(tasks, old.id)
               IN  IF old.year = last.year /\ old.type = "note" /\ old.archived = 0
                   THEN new = [old EXCEPT !.archived = 1]
                   ELSE new = old
        /\ last.result = Cardinality({old \in last.before : old \notin tasks})

\* One open note of the year was archived while a task of the same year
\* stayed as it was.
C21_Witness ==
    /\ last.op = "archiveNotesFromYear"
    /\ last.result = 1
    /\ \E old \in last.before :
           /\ old.type = "note" /\ old.archived = 0 /\ old.year = last.year
           /\ RowById(tasks, old.id).archived = 1
    /\ \E old \in last.before :
           old.type = "task" /\ old.year = last.year /\ old \in tasks

\* C22: for an id no row has, getTaskById raises 'Task not found' and
\* getCropById returns null without raising; neither changes the store.
C22_MissingIdTaskRaisesCropReturnsNull ==
    /\ (last.op = "getTaskById" /\ last.id \notin UsedIds(last.tasksBefore))
       => /\ last.outcome.threw
          /\ last.outcome.error = "Task not found"
          /\ tasks = last.tasksBefore
          /\ crops = last.cropsBefore
    /\ (last.op = "getCropById" /\ last.id \notin UsedIds(last.cropsBefore))
       => /\ ~last.outcome.threw
          /\ last.outcome.isNull
          /\ tasks = last.tasksBefore
          /\ crops = last.cropsBefore

\* A task lookup missed while the table has rows (so did not raise for
\* want of rows).
C22_Witness ==
    /\ last.op = "getTaskById"
    /\ last.tasksBefore # {}
    /\ last.cropsBefore # {}
    /\ last.id \notin UsedIds(last.tasksBefore)
    /\ last.outcome.threw

\* C23: when an INSERT of copySelectedTasks fails part-way, the error
\* reaches the caller, the source rows from the failing one on are not
\* copied, and the rows inserted before the failure stay in the store.
C23_FailedCopyKeepsEarlierCopies ==
    (last.op = "copySelectedTasks" /\ last.failAt > 0) =>
        /\ last.threw
        /\ Len(last.inserted) = last.failAt - 1
        /\ last.before \subseteq tasks
        /\ UsedIds(tasks) \ UsedIds(last.before) =
               {last.inserted[k].id : k \in 1 .. Len(last.inserted)}
        /\ Cardinality(tasks) = Cardinality(last.before) + last.failAt - 1

\* The second of two INSERTs failed: one copy is in the store, the other
\* source row has none.
C23_Witness ==
    /\ last.op = "copySelectedTasks"
    /\ last.failAt = 2
    /\ last.selected = 2
    /\ last.threw
    /\ Cardinality(tasks) = Cardinality(last.before) + 1

\* The outcome of calling copySelectedTasks once more, with the options of
\* the call that has just returned, on the store as it is now.
SecondIdenticalCopy ==
    LET selected == SelectSourceTasks(tasks, last.options)
        sourceTasks == CHOOSE f \in OrderedByDate(selected) : TRUE
    IN  CopyLoop(tasks, uuids, sourceTasks, 1, <<>>, last.options,
                 device.tz, device.legacyParse, 0)

\* C28: copySelectedTasks copies the rows that matched when it started and
\* never a row it inserted itself, also when toYear equals fromYear; a
\* second identical call copies the matching originals and the matching
\* copies of the first call, with no de-duplication.
C28_SourceReadOnceNoDeduplication ==
    (last.op = "copySelectedTasks" /\ ~last.threw) =>
        LET atStart == {r \in last.before : C8_Selected(r)}
            sources == {last.inserted[k].source : k \in 1 .. Len(last.inserted)}
            copies  == {RowById(tasks, last.inserted[k].id) :
                           k \in 1 .. Len(last.inserted)}
            again   == SecondIdenticalCopy
        IN  /\ Len(last.inserted) = Cardinality(atStart)
            /\ sources = UsedIds(atStart)
            /\ Cardinality(tasks) = Cardinality(last.before) + Cardinality(atStart)
            /\ ~again.threw
            /\ Len(again.inserted) =
                   Cardinality(atStart) + Cardinality({c \in copies : C8_Selected(c)})
            /\ (last.options.toYear = last.options.fromYear
                   => Len(again.inserted) = 2 * Len(last.inserted))
            /\ (last.options.toYear # last.options.fromYear
                   => Len(again.inserted) = Len(last.inserted))

\* A copy of two rows into their own year: four rows are in the store and
\* a second identical call would copy all four.
C28_Witness ==
    /\ last.op = "copySelectedTasks"
    /\ ~last.threw
    /\ last.options.toYear = last.options.fromYear
    /\ Len(last.inserted) = 2
    /\ Cardinality(tasks) = 4
    /\ Len(SecondIdenticalCopy.inserted) = 4

\* C24: in schema setup only the 'duplicate column' failure of an
\* add-column step is dropped; a schema statement that fails for another
\* reason makes initDatabase raise.
C24_OtherSchemaFailuresRaise ==
    (/\ last.op = "initDatabase"
     /\ last.fault # NoFault
     /\ last.faultOccurred)
    => last.threw

\* With no failing statement the call is initDatabase as modelled for the
\* runs without faults.
InitDatabaseUnderNoFaultAgrees ==
    \A sch \in LegacySchemas :
        initDatabaseUnder(sch, {}, <<>>, NoFault) = initDatabase(sch, {}, <<>>)

\* C25: a failure of the store during a repository operation, the probe
\* for a column included, reaches the caller as an error; the operation
\* never returns normally.
C25_StoreFailureAlwaysRaises ==
    (/\ last.op \in {"createTask", "getTasks", "saveSettings", "getCropById"}
     /\ last.fault # NoStoreFault)
    => last.threw

\* What the dropped failure does to getTasks: this invariant of the runs
\* without faults is violated, an archived row is returned.
GetTasksNeverReturnsArchived ==
    (last.op = "getTasks" /\ ~last.threw) => \A t \in last.result : ~t.archived

\* C26: importDatabase raises only when tasks, crops and settings are what
\* they were before the call: a call that ends with an error has committed
\* nothing, also when the reset after the commit fails.
C26_ImportErrorMeansStoreUnchanged ==
    (last.op = "importDatabase" /\ last.threw) =>
        /\ tasks = last.tasksBefore
        /\ crops = last.cropsBefore
        /\ settings = last.settingsBefore

\* C27: exportDatabase followed by importDatabase of the file it wrote
\* restores the store: every task of every year with all its fields, every
\* crop, and the latest settings with saveToPhotoLibrary.
C27_ExportImportRestoresStore ==
    last.op = "importExported" =>
        /\ ~last.threw
        /\ tasks = last.tasksBefore
        /\ crops = last.cropsBefore
        /\ (last.settingsBefore # <<>> =>
               /\ settings # <<>>
               /\ RowToSettings(MostRecentRow(settings)) =
                      RowToSettings(MostRecentRow(last.settingsBefore)))

\* The parts of the round trip that do hold: the crops come back, and so do
\* the four settings values the import binds.
RoundTripKeepsCropsAndBoundSettings ==
    last.op = "importExported" =>
        /\ ~last.threw
        /\ crops = last.cropsBefore
        /\ (last.settingsBefore # <<>> =>
               [RowToSettings(MostRecentRow(settings))
                    EXCEPT !.saveToPhotoLibrary = FALSE] =
               [RowToSettings(MostRecentRow(last.settingsBefore))
                    EXCEPT !.saveToPhotoLibrary = FALSE])

\* C29: saving a new task with succession enabled, count n >= 1 and
\* interval k weeks creates exactly n rows: the original at the base date
\* and, for i in 1..n-1, one row dated base + i*k weeks, titled
\* '<title> - #<i+1>', whose year is the year of its date and whose other
\* fields are the original's; with succession disabled one row is created.
C29_SuccessionCreatesNRows ==
    (last.op = "handleSave" /\ last.form.isNewTask /\ last.alert = "") =>
        LET form == last.form
            n == IF form.enableSuccession THEN parseInt(form.successionCount) ELSE 1
            k == parseInt(form.successionInterval)
            new == tasks \ last.before
            original == RowById(tasks, last.issuedBefore + 1)
            base == DayNumber(form.date.y, form.date.m, form.date.d)
        IN  /\ last.before \subseteq tasks
            /\ Cardinality(new) = n
            /\ original \in new
            /\ original.title = form.title
            /\ original.date = form.date
            /\ \A i \in 1 .. (n - 1) :
                   \E r \in new :
                       /\ r.id # original.id
                       /\ r.title = SuccessionTitle(form.title, i + 1)
                       /\ r.title # form.title
                       /\ r.date.fmt = MDY
                       /\ r.date.m \in 1 .. 12
                       /\ r.date.d \in 1 .. DaysInMonth(r.date.y, r.date.m)
                       /\ DayNumber(r.date.y, r.date.m, r.date.d) = base + 7 * i * k
                       /\ r.year = r.date.y
                       /\ [r EXCEPT !.id = 0, !.title = "", !.date = form.date, !.year = 0]
                            = [original EXCEPT !.id = 0, !.title = "", !.date = form.date,
                                               !.year = 0]

\* Three plantings eight weeks apart from Dec 20 2024: the third is dated
\* Apr 11 2025 and carries the year 2025.
C29_Witness ==
    /\ last.op = "handleSave"
    /\ last.form.isNewTask
    /\ last.form.enableSuccession
    /\ parseInt(last.form.successionCount) = 3
    /\ parseInt(last.form.successionInterval) = 8
    /\ last.form.date = DateText(MDY, 2024, 12, 20)
    /\ \E r \in tasks :
           /\ r.title = "Peas - #3"
           /\ r.date = DateText(MDY, 2025, 4, 11)
           /\ r.year = 2025

\* C30: after the main screen's load, on focus or on pull-to-refresh, the
\* list shown is getTasks of the currentYear of the latest settings row,
\* not of a year captured before the settings were read.
C30_ShownTasksAreOfSettingsYear ==
    last.op \in {"focusLoad", "handleRefresh"} =>
        /\ settings # <<>>
        /\ screen.currentYear = RowToSettings(MostRecentRow(settings)).currentYear
        /\ screen.tasks =
               getTasksOfYear(schema, tasks,
                              RowToSettings(MostRecentRow(settings)).currentYear)

\* What does hold: the list shown is getTasks of the year the render held
\* before the load, the clock's year on focus.
ShownTasksAreOfRenderYear ==
    /\ last.op = "focusLoad" =>
           screen.tasks = getTasksOfYear(schema, tasks, getFullYear(Now))
    /\ last.op = "handleRefresh" =>
           screen.tasks = getTasksOfYear(schema, tasks, last.yearBefore)

====
